---- MODULE Spec2Model ----
(***************************************************************************)
(* Verification model of the OSRS hiscore snapshot tracker:                *)
(*   - the delta engine            (core/processing.py)                    *)
(*   - the mode resolver           (web/services/detect_mode.py,           *)
(*                                  core/mode_cache.py)                    *)
(*   - the snapshot store ingest   (web/services/snapshot_ingest.py,       *)
(*                                  database/connection.py)                *)
(*   - the snapshot agent          (agents/osrs_snapshot_agent.py)         *)
(***************************************************************************)
EXTENDS Integers, Sequences, FiniteSets, TLC

(***************************************************************************)
(* Bounds of the model.                                                    *)
(***************************************************************************)
\* longest skill list / activity list of a snapshot fed to the delta engine
MaxLen == 2
\* most hiscore tables that answer with data during one mode resolution
MaxMatched == 3
\* largest Overall xp a hiscore table reports for a player
MaxModeXp == 1
\* most ingest_result calls of a run
MaxIngests == 3
\* most runs of the snapshot agent
MaxRuns == 2

(***************************************************************************)
(* Python values.  A JSON scalar is a pair <<kind, n>>: a number, null     *)
(* (None, also what dict.get returns for a missing key) or a string.       *)
(***************************************************************************)
None == <<"none", 0>>
Num(n) == <<"num", n>>
Str == <<"str", 0>>
IsNum(v) == v[1] = "num"

\* the indices 1..Len(s) as a set
Idx(s) == 1..Len(s)

RECURSIVE SumSeq(_)
SumSeq(s) == IF s = <<>> THEN 0 ELSE s[1] + SumSeq(Tail(s))

(***************************************************************************)
(* core/processing.py                                                      *)
(***************************************************************************)
\* _safe_number: a number is itself, anything else counts 0
_safe_number(v) == IF IsNum(v) THEN v[2] ELSE 0

\* _number_delta(old, new)
_number_delta(old, new) == _safe_number(new) - _safe_number(old)

\* the entries that pass `if entry.get("name")`: a non-empty name
Named(entries) == SelectSeq(entries, LAMBDA e : e.name # "")

\* _index_by_name: a dict built by comprehension.  A key keeps the position
\* of its first occurrence and the value of its last occurrence.  The dict is
\* modelled as the sequence of its values in key order.
_index_by_name(entries) ==
  LET named == Named(entries)
      first(i) == \A j \in 1..(i-1) : named[j].name # named[i].name
      lastOf(n) == CHOOSE i \in Idx(named) :
                      /\ named[i].name = n
                      /\ \A j \in (i+1)..Len(named) : named[j].name # n
      keyPos == SelectSeq([i \in Idx(named) |-> i], first)
  IN  [k \in Idx(keyPos) |-> named[lastOf(named[keyPos[k]].name)]]

\* dict.get(name, {}) on an index: the entry, or the empty dict, whose
\* every field reads None
EmptyEntry == [name |-> "", level |-> None, xp |-> None, rank |-> None, score |-> None]
IndexGet(index, n) ==
  IF \E i \in Idx(index) : index[i].name = n
    THEN index[CHOOSE i \in Idx(index) : index[i].name = n]
    ELSE EmptyEntry

\* sorted(items, key=..., reverse=True): a stable sort, descending by key;
\* items of equal key keep their order.  An item travels with its key as the
\* pair <<key, item>>.
RECURSIVE InsertDesc(_, _)
InsertDesc(sorted, pair) ==
  IF sorted = <<>> THEN <<pair>>
  ELSE IF Head(sorted)[1] >= pair[1]
    THEN <<Head(sorted)>> \o InsertDesc(Tail(sorted), pair)
    ELSE <<pair>> \o sorted

\* a sort that leaves the list in the order of the current snapshot
SortPairsKeepOrder(pairs) == pairs

RECURSIVE SortPairsDesc(_)
SortPairsDesc(pairs) ==
  IF pairs = <<>> THEN <<>>
  ELSE InsertDesc(SortPairsDesc(SubSeq(pairs, 1, Len(pairs) - 1)), pairs[Len(pairs)])

\* the items of a sorted list of <<key, item>> pairs
Items(pairs) == [i \in Idx(pairs) |-> pairs[i][2]]

\* lines 38-50: one candidate delta per key of the current index
SkillDeltaOf(prevIndex, cur) ==
  LET prev == IndexGet(prevIndex, cur.name)
  IN  [name |-> cur.name,
       xp_delta |-> _number_delta(prev.xp, cur.xp),
       level_delta |-> _number_delta(prev.level, cur.level)]

\* lines 52-62
ActivityDeltaOf(prevIndex, cur) ==
  LET prev == IndexGet(prevIndex, cur.name)
  IN  [name |-> cur.name,
       score_delta |-> _number_delta(prev.score, cur.score)]

\* a retention test that also keeps an unchanged skill
KeepSkillDeltaNonNegative(d) == d.xp_delta >= 0 \/ d.level_delta > 0

\* line 43: the retention test of a skill delta
KeepSkillDelta(d) == d.xp_delta > 0 \/ d.level_delta > 0

\* line 56: the retention test of an activity delta
KeepActivityDelta(d) == d.score_delta > 0

\* a total that runs over the name index: nameless and repeated entries lost
TotalXpOverIndex(skills) ==
  SumSeq([i \in Idx(_index_by_name(skills)) |-> _safe_number(_index_by_name(skills)[i].xp)])

\* lines 64-66: the totals run over the full lists, not over the indexes
TotalXp(skills) == SumSeq([i \in Idx(skills) |-> _safe_number(skills[i].xp)])

compute_snapshot_delta(previous, current) ==
  LET prev_skills == _index_by_name(previous.skills)
      curr_skills == _index_by_name(current.skills)
      prev_activities == _index_by_name(previous.activities)
      curr_activities == _index_by_name(current.activities)
      skill_deltas ==
        SelectSeq([i \in Idx(curr_skills) |-> SkillDeltaOf(prev_skills, curr_skills[i])],
                  KeepSkillDelta)
      activity_deltas ==
        SelectSeq([i \in Idx(curr_activities) |->
                     ActivityDeltaOf(prev_activities, curr_activities[i])],
                  KeepActivityDelta)
  IN  [total_xp_delta |-> TotalXp(current.skills) - TotalXp(previous.skills),
       skill_deltas |->
         Items(SortPairsDesc([i \in Idx(skill_deltas) |->
                                <<skill_deltas[i].xp_delta, skill_deltas[i]>>])),
       activity_deltas |->
         Items(SortPairsDesc([i \in Idx(activity_deltas) |->
                                <<activity_deltas[i].score_delta, activity_deltas[i]>>]))]

(***************************************************************************)
(* core/constants.py, web/services/detect_mode.py: constants               *)
(***************************************************************************)
\* GAME_MODES.keys(), in the order of the dict literal
GAME_MODES == << "main", "ironman", "hardcore", "ultimate", "group_ironman",
                 "hardcore_group_ironman", "deadman", "tournament", "seasonal" >>
IRON_FAMILY == << "hardcore", "hardcore_group_ironman", "ironman", "group_ironman",
                  "ultimate" >>
FALLBACK_MODES == << "main", "tournament", "seasonal", "deadman" >>
STABLE_CACHED_MODES == { "ironman", "group_ironman", "ultimate", "main" }

Range(seq) == { seq[i] : i \in Idx(seq) }
\* position of an element of a sequence without repetitions
IndexOf(seq, x) == CHOOSE i \in Idx(seq) : seq[i] = x
IsAuto(requested_mode) == requested_mode \in { "auto", "auto-detect" }

(***************************************************************************)
(* core/mode_cache.py.  A cache maps each player to a mode, "" standing    *)
(* for a player without a record.                                          *)
(***************************************************************************)
\* ModeCache.get: the mode of the record, None (here "") without a record
CacheGet(data, player) == data[player]

\* ModeCache.update on <<data, dirty>>: a repeated mode changes nothing
CacheUpdate(data, dirty, player, mode) ==
  IF data[player] # "" /\ data[player] = mode
    THEN <<data, dirty>>
    ELSE <<[data EXCEPT ![player] = mode], TRUE>>

\* a persist that never writes
CachePersistSkipped(file, data, dirty) == file
\* ModeCache.persist: the file after the call; the whole mapping is written
\* when the cache is dirty
CachePersist(file, data, dirty) == IF dirty THEN data ELSE file

(***************************************************************************)
(* web/services/detect_mode.py                                             *)
(***************************************************************************)
\* _xp_value: int(xp), -1 when xp is None
_xp_value(entry) == IF IsNum(entry.xp) THEN entry.xp[2] ELSE -1

\* a successes dict is the sequence of its items [mode, xp] in insertion order
SuccessModes(successes) == { successes[i].mode : i \in Idx(successes) }
SuccessOf(successes, m) == successes[CHOOSE i \in Idx(successes) : successes[i].mode = m]

\* max(items, key): the first item, in iteration order, of the largest key
RECURSIVE MaxByXp(_)
MaxByXp(items) ==
  IF Len(items) = 1 THEN items[1]
  ELSE LET best == MaxByXp(SubSeq(items, 1, Len(items) - 1))
           last == items[Len(items)]
       IN  IF _xp_value(last) > _xp_value(best) THEN last ELSE best

\* a tie-break of the fallen-hardcore pair in which a tie goes to the lower mode
FallenPairTieToLower(higher, lower, successes) ==
  IF _xp_value(SuccessOf(successes, lower)) >= _xp_value(SuccessOf(successes, higher))
    THEN lower ELSE higher

\* lines 46-52 and 55-60: the lower mode wins only with strictly more xp
FallenPair(higher, lower, successes) ==
  IF _xp_value(SuccessOf(successes, lower)) > _xp_value(SuccessOf(successes, higher))
    THEN lower ELSE higher

\* a choice in which, among iron-family modes of equal xp, the latest in
\* IRON_FAMILY wins
PickBestLatestOnTie(successes) ==
  LET matched == SuccessModes(successes)
      iron == SelectSeq(IRON_FAMILY, LAMBDA m : m \in matched)
      reversed == [i \in Idx(iron) |-> SuccessOf(successes, iron[Len(iron) + 1 - i])]
  IN  IF "hardcore" \in matched /\ "ironman" \in matched
        THEN FallenPair("hardcore", "ironman", successes)
      ELSE IF "hardcore_group_ironman" \in matched /\ "group_ironman" \in matched
        THEN FallenPair("hardcore_group_ironman", "group_ironman", successes)
      ELSE IF iron # <<>>
        THEN MaxByXp(reversed).mode
      ELSE IF "main" \in matched
        THEN "main"
      ELSE MaxByXp(successes).mode
_pick_best_mode(successes) ==
  LET matched == SuccessModes(successes)
      \* iron_candidates, in IRON_FAMILY order
      iron == SelectSeq(IRON_FAMILY, LAMBDA m : m \in matched)
      ironItems == [i \in Idx(iron) |-> SuccessOf(successes, iron[i])]
  IN  IF "hardcore" \in matched /\ "ironman" \in matched
        THEN FallenPair("hardcore", "ironman", successes)
      ELSE IF "hardcore_group_ironman" \in matched /\ "group_ironman" \in matched
        THEN FallenPair("hardcore_group_ironman", "group_ironman", successes)
      ELSE IF iron # <<>>
        \* key (xp, -priority): the largest xp, the earliest of IRON_FAMILY on a tie
        THEN MaxByXp(ironItems).mode
      ELSE IF "main" \in matched
        THEN "main"
      ELSE MaxByXp(successes).mode

\* an _add_unique that appends a mode the list already holds
AddUniqueAllowsRepeats(seq, mode) ==
  IF mode \in Range(GAME_MODES) THEN Append(seq, mode) ELSE seq
\* _add_unique
_add_unique(seq, mode) ==
  IF mode \in Range(GAME_MODES) /\ mode \notin Range(seq) THEN Append(seq, mode) ELSE seq

RECURSIVE AddAll(_, _)
AddAll(seq, modes) ==
  IF modes = <<>> THEN seq ELSE AddAll(_add_unique(seq, Head(modes)), Tail(modes))

\* lines 118-126: the probe order of an auto resolution
Candidates(cache_mode) ==
  AddAll(AddAll(AddAll(IF cache_mode # "" THEN _add_unique(<<>>, cache_mode) ELSE <<>>,
                       IRON_FAMILY),
                FALLBACK_MODES),
         GAME_MODES)

\* line 85: (requested_mode or "auto").lower().strip()
LowerStrip(requested_mode) ==
  CASE requested_mode = "" -> "auto"
    [] requested_mode = " AUTO" -> "auto"
    [] requested_mode = "Ironman " -> "ironman"
    [] OTHER -> requested_mode

\* a trust test whose stable set lacks main
TrustsCacheWithoutMain(force, requested_mode, cache_mode) ==
  ~force /\ IsAuto(requested_mode) /\ cache_mode \in STABLE_CACHED_MODES \ { "main" }

\* a trust test that does not look at the requested mode
TrustsCacheForAnyRequest(force, requested_mode, cache_mode) ==
  ~force /\ cache_mode \in STABLE_CACHED_MODES

\* line 89: a stable cached mode is trusted
TrustsCache(force, requested_mode, cache_mode) ==
  ~force /\ IsAuto(requested_mode) /\ cache_mode \in STABLE_CACHED_MODES

(***************************************************************************)
(* Inputs of the delta engine: normalized snapshots (no negative number).  *)
(***************************************************************************)
Skill(n, l, x, r) == [name |-> n, level |-> l, xp |-> x, rank |-> r]
Activity(n, sc, r) == [name |-> n, score |-> sc, rank |-> r]

\* <<xp, level>> of a skill entry: more xp at a lower level, less xp at a
\* higher level
SkillStats == { <<Num(1), Num(2)>>, <<Num(2), Num(1)>> }
ActivityScores == { None, Num(1), Num(2) }

\* an entry without a name (dropped by _index_by_name), named entries, an
\* entry with a null xp and one with a non-numeric xp and a null level
SkillEntries ==
  { Skill("", Num(1), Num(2), None), Skill("A", Num(1), None, None),
    Skill("B", None, Str, None) } \cup
  { Skill(n, st[2], st[1], None) : n \in {"A", "B"}, st \in SkillStats }
ActivityEntries ==
  { Activity("", Num(2), None) } \cup
  { Activity(n, sc, None) : n \in {"T", "U"}, sc \in ActivityScores }

SeqsUpTo(S, n) == UNION { [1..k -> S] : k \in 0..n }

Snapshot(sk, ac) == [skills |-> sk, activities |-> ac]

\* a snapshot of skills only, or of activities only
DeltaInputs ==
  { Snapshot(sk, <<>>) : sk \in SeqsUpTo(SkillEntries, MaxLen) } \cup
  { Snapshot(<<>>, ac) : ac \in SeqsUpTo(ActivityEntries, MaxLen) }

NoDelta == [total_xp_delta |-> 0, skill_deltas |-> <<>>, activity_deltas |-> <<>>]

(***************************************************************************)
(* The mode resolver's world.                                              *)
(***************************************************************************)
Players == { "p1", "p2" }
\* the hiscore tables a player can be listed in: p1 in any but the
\* tournament one, zed in the regular and the ironman one, the others in the
\* regular one
Habitat(player) ==
  CASE player = "p1" -> Range(GAME_MODES) \ { "tournament" }
    [] player = "zed" -> { "main", "ironman" }
    [] OTHER -> { "main" }
\* the players the snapshot agent tracks; "a b" and "a_b" name one account
AgentPlayers == { "a b", "a_b", "zed" }
\* the Overall xp a table reports: skills[0].xp, None for a payload without skills
ModeXp == { None } \cup { Num(n) : n \in 1..MaxModeXp }
\* the requested_mode arguments
RequestedModes == Range(GAME_MODES) \cup { "auto", "auto-detect", "", " AUTO", "Ironman ", "bogus" }

\* HiscoreClient.fetch(player, mode): data, PlayerNotFoundError, or another exception
FetchOutcomes(player, mode) ==
  { [kind |-> "not_found", xp |-> None], [kind |-> "error", xp |-> None] } \cup
  { [kind |-> "found", xp |-> x] : x \in IF mode \in Habitat(player) THEN ModeXp ELSE {} }

EmptyCache == [p \in Players \cup AgentPlayers |-> ""]
\* the cache file the resolver starts from: p2 resolved earlier, p1 unknown
StartCache == [EmptyCache EXCEPT !["p2"] = "main"]
NoResult == [status |-> "", mode |-> "", cached |-> FALSE,
             has_tested_modes |-> FALSE, tested_modes |-> <<>>]
\* the dict a return statement builds; mode "" stands for a dict without "mode"
Result(status, mode, cached, has_tested, tested) ==
  [status |-> status, mode |-> mode, cached |-> cached,
   has_tested_modes |-> has_tested, tested_modes |-> tested]

DmIdle == [pc |-> "idle", player |-> "", requested_mode |-> "", force |-> FALSE,
           cache_mode |-> "", data |-> EmptyCache, dirty |-> FALSE,
           file0 |-> EmptyCache,
           candidates |-> <<>>, next |-> 1, successes |-> <<>>, fetched |-> <<>>,
           outcomes |-> <<>>,
           result |-> NoResult]

(***************************************************************************)
(* The snapshot store: database/models.py, database/connection.py and      *)
(* web/services/snapshot_ingest.py.  A table is the sequence of its rows   *)
(* and a row's id is its position; 0 stands for NULL / no row.             *)
(***************************************************************************)
\* an Optional[dict] delta: None, or a delta
NoneDelta == [some |-> FALSE, value |-> NoDelta]
SomeDelta(d) == [some |-> TRUE, value |-> d]

EmptyDb == [accounts |-> <<>>, snapshots |-> <<>>, skills |-> <<>>,
            activities |-> <<>>, deltas |-> <<>>]

\* core/constants.py SKILLS
SKILLS ==
  << "overall", "attack", "defence", "strength", "hitpoints", "ranged", "prayer",
     "magic", "cooking", "woodcutting", "fletching", "fishing", "firemaking",
     "crafting", "smithing", "mining", "herblore", "agility", "thieving", "slayer",
     "farming", "runecraft", "hunter", "construction", "sailing" >>

\* str.lower() on the skill names of the model
Lower(name) == IF name = "Overall" THEN "overall" ELSE name

\* int(v or 0) of a level or an xp
IntOr0(v) == IF IsNum(v) THEN v[2] ELSE 0

\* _total_from_skills: the first entry named "overall" gives both totals; a
\* total still 0 after that is the sum over every entry
_total_from_skills(skills) ==
  LET overall == { i \in Idx(skills) : Lower(skills[i].name) = "overall" }
      first == CHOOSE i \in overall : \A j \in overall : i <= j
      level0 == IF overall = {} THEN 0 ELSE IntOr0(skills[first].level)
      xp0 == IF overall = {} THEN 0 ELSE IntOr0(skills[first].xp)
      total_level == IF level0 = 0
                       THEN SumSeq([i \in Idx(skills) |-> IntOr0(skills[i].level)])
                       ELSE level0
      total_xp == IF xp0 = 0
                    THEN SumSeq([i \in Idx(skills) |-> IntOr0(skills[i].xp)])
                    ELSE xp0
  IN  <<total_level, total_xp>>

\* SELECT id FROM snapshots WHERE snapshot_id = ?  (0: no row)
ExistingIdNever(view, snapshot_id) == 0
ExistingId(view, snapshot_id) ==
  LET hits == { i \in Idx(view.snapshots) : view.snapshots[i].snapshot_id = snapshot_id }
  IN  IF hits = {} THEN 0 ELSE CHOOSE i \in hits : \A j \in hits : i <= j

\* SELECT id FROM accounts WHERE name = ?  (0: no row)
AccountId(view, player) ==
  LET hits == { i \in Idx(view.accounts) : view.accounts[i].name = player }
  IN  IF hits = {} THEN 0 ELSE CHOOSE i \in hits : TRUE

\* accounts.name UNIQUE / snapshots.snapshot_id UNIQUE: would the INSERT fail
AccountNameTaken(view, player) == AccountId(view, player) # 0
SnapshotIdTaken(view, snapshot_id) == ExistingId(view, snapshot_id) # 0

\* _ensure_account, its writing half: `account` is the id its SELECT returned
\* (0: none).  Returns <<view, account_id>>.
_ensure_account(view, account, player, resolved_mode) ==
  IF account # 0
    THEN <<[view EXCEPT !.accounts[account].default_mode = resolved_mode], account>>
    ELSE <<[view EXCEPT !.accounts =
               Append(@, [name |-> player, default_mode |-> resolved_mode])],
           Len(view.accounts) + 1>>

\* INSERT INTO snapshots (lines 184-205).  Returns <<view, snapshot_db_id>>.
InsertSnapshot(view, payload, account_id) ==
  LET totals == _total_from_skills(payload.data.skills)
      row == [snapshot_id |-> payload.snapshot_id, account_id |-> account_id,
              fetched_at |-> payload.fetched_at,
              total_xp |-> totals[2], total_level |-> totals[1],
              requested_mode |-> payload.requested_mode,
              resolved_mode |-> payload.resolved_mode]
  IN  <<[view EXCEPT !.snapshots = Append(@, row)], Len(view.snapshots) + 1>>

\* skill_id of an entry without "id": its place in SKILLS, else its index
SkillId(name, idx) ==
  IF name \in Range(SKILLS) THEN IndexOf(SKILLS, name) - 1 ELSE idx

\* _insert_skills: one row per entry of the list
_insert_skills(view, snapshot_db_id, skills) ==
  [view EXCEPT !.skills = @ \o
     [i \in Idx(skills) |->
        [snapshot_id |-> snapshot_db_id, skill_id |-> SkillId(skills[i].name, i - 1),
         name |-> skills[i].name, level |-> skills[i].level,
         xp |-> skills[i].xp, rank |-> skills[i].rank]]]

\* _insert_activities: one row per entry of the list; the activity names of
\* the model are no keys of ACTIVITY_LOOKUP, so activity_id is the index
_insert_activities(view, snapshot_db_id, activities) ==
  [view EXCEPT !.activities = @ \o
     [i \in Idx(activities) |->
        [snapshot_id |-> snapshot_db_id, activity_id |-> i - 1,
         name |-> activities[i].name, score |-> activities[i].score,
         rank |-> activities[i].rank]]]

\* a delta_summary: None, or a str.  A str is a literal text, or the
\* fragments summarize_delta joins with " | "
NoSummary == [kind |-> "none", text |-> "", parts |-> <<>>]
Literal(s) == [kind |-> "str", text |-> s, parts |-> <<>>]
Joined(parts) == [kind |-> "str", text |-> "", parts |-> parts]

\* a slice that keeps every entry
TakeAll(s) == s
\* s[:3]
Take3(s) == SubSeq(s, 1, IF Len(s) < 3 THEN Len(s) ELSE 3)

\* summarize_delta.  A fragment is its label and its <<name, number>> items;
\* format_number is str() below 1000, where the numbers of the model are
summarize_delta(delta) ==
  LET total_xp_delta == delta.total_xp_delta
      skill_deltas == delta.skill_deltas
      activity_deltas == delta.activity_deltas
      leveled == SelectSeq(skill_deltas, LAMBDA s : s.level_delta > 0)
      f1 == IF total_xp_delta # 0
              THEN << [label |-> "DeltaXP", items |-> << <<"", total_xp_delta>> >>] >>
              ELSE <<>>
      f2 == IF leveled # <<>>
              THEN << [label |-> "Levels",
                       items |-> [i \in Idx(Take3(leveled)) |->
                                    <<leveled[i].name, leveled[i].level_delta>>]] >>
            ELSE IF skill_deltas # <<>>
              THEN << [label |-> "XP gains",
                       items |-> [i \in Idx(Take3(skill_deltas)) |->
                                    <<skill_deltas[i].name, skill_deltas[i].xp_delta>>]] >>
            ELSE <<>>
      f3 == IF activity_deltas # <<>>
              THEN << [label |-> "Activities",
                       items |-> [i \in Idx(Take3(activity_deltas)) |->
                                    <<activity_deltas[i].name,
                                      activity_deltas[i].score_delta>>]] >>
              ELSE <<>>
      fragments == f1 \o f2 \o f3
  IN  IF fragments = <<>> THEN Literal("No changes since last snapshot.")
      ELSE Joined(fragments)

\* lines 99-109: the stored snapshot of the account with the greatest
\* fetched_at below the given one (0: none)
PrevSnapshotId(view, account_id, fetched_at) ==
  LET earlier == { i \in Idx(view.snapshots) :
                     /\ view.snapshots[i].account_id = account_id
                     /\ view.snapshots[i].fetched_at < fetched_at }
  IN  IF earlier = {} THEN 0
      ELSE CHOOSE i \in earlier :
             \A j \in earlier : view.snapshots[j].fetched_at <= view.snapshots[i].fetched_at

\* lines 123-124: the skills / activities stored for a snapshot, as dicts
StoredSkills(view, id) ==
  LET rows == SelectSeq(view.skills, LAMBDA r : r.snapshot_id = id)
  IN  [i \in Idx(rows) |-> Skill(rows[i].name, rows[i].level, rows[i].xp, rows[i].rank)]
StoredActivities(view, id) ==
  LET rows == SelectSeq(view.activities, LAMBDA r : r.snapshot_id = id)
  IN  [i \in Idx(rows) |-> Activity(rows[i].name, rows[i].score, rows[i].rank)]

\* _insert_delta.  Returns <<view, delta_used>>.  fetched_at counts hours.
_insert_delta_zero_baseline(view, account_id, snapshot_db_id, fetched_at, delta, current) ==
  LET prev_id == PrevSnapshotId(view, account_id, fetched_at)
      used == SomeDelta(compute_snapshot_delta(
                IF prev_id # 0
                  THEN Snapshot(StoredSkills(view, prev_id), StoredActivities(view, prev_id))
                  ELSE current,
                current))
      row == [current_snapshot_id |-> snapshot_db_id, previous_snapshot_id |-> prev_id,
              total_xp_delta |-> used.value.total_xp_delta,
              skill_deltas |-> used.value.skill_deltas,
              activity_deltas |-> used.value.activity_deltas,
              time_diff_hours |-> None]
  IN  <<[view EXCEPT !.deltas = Append(@, row)], used>>
\* an _insert_delta that recomputes only for a payload without a delta
InsertDeltaPrefersPayload(view, account_id, snapshot_db_id, fetched_at, delta, current) ==
  LET prev_id == PrevSnapshotId(view, account_id, fetched_at)
      used == IF prev_id # 0 /\ ~delta.some
                THEN SomeDelta(compute_snapshot_delta(
                       Snapshot(StoredSkills(view, prev_id), StoredActivities(view, prev_id)),
                       current))
                ELSE delta
      row == [current_snapshot_id |-> snapshot_db_id, previous_snapshot_id |-> prev_id,
              total_xp_delta |-> used.value.total_xp_delta,
              skill_deltas |-> used.value.skill_deltas,
              activity_deltas |-> used.value.activity_deltas,
              time_diff_hours |-> None]
  IN  IF ~used.some THEN <<view, NoneDelta>>
      ELSE <<[view EXCEPT !.deltas = Append(@, row)], used>>
_insert_delta(view, account_id, snapshot_db_id, fetched_at, delta, current) ==
  LET prev_id == PrevSnapshotId(view, account_id, fetched_at)
      time_diff_hours == IF prev_id = 0 THEN None
                         ELSE Num(fetched_at - view.snapshots[prev_id].fetched_at)
      used == IF prev_id # 0
                THEN SomeDelta(compute_snapshot_delta(
                       Snapshot(StoredSkills(view, prev_id), StoredActivities(view, prev_id)),
                       current))
                ELSE delta
      row == [current_snapshot_id |-> snapshot_db_id, previous_snapshot_id |-> prev_id,
              total_xp_delta |-> used.value.total_xp_delta,
              skill_deltas |-> used.value.skill_deltas,
              activity_deltas |-> used.value.activity_deltas,
              time_diff_hours |-> time_diff_hours]
  IN  IF ~used.some THEN <<view, NoneDelta>>
      ELSE <<[view EXCEPT !.deltas = Append(@, row)], used>>

\* line 210: summarize_delta(delta_used) if delta_used else None
IngestSummary(delta_used) ==
  IF delta_used.some THEN summarize_delta(delta_used.value) ELSE NoSummary

\* get_connection (connection.py 51-74): what a reader sees after the block
\* left with an exception (rollback) and after it left normally (commit)
RollbackKeepsWrites(committed, view) == view
Rollback(committed, view) == committed
Commit(committed, view) == view

\* _sanitize_number_fields: a negative number becomes None
Sanitize(v) == IF IsNum(v) /\ v[2] < 0 THEN None ELSE v

\* normalize_snapshot_data
normalize_snapshot_data(raw_data) ==
  Snapshot([i \in Idx(raw_data.skills) |->
              Skill(raw_data.skills[i].name, Sanitize(raw_data.skills[i].level),
                    Sanitize(raw_data.skills[i].xp), Sanitize(raw_data.skills[i].rank))],
           [i \in Idx(raw_data.activities) |->
              Activity(raw_data.activities[i].name, Sanitize(raw_data.activities[i].score),
                       Sanitize(raw_data.activities[i].rank))])

\* what the hiscore API answers for a player after t hours of play: rank -1
\* is an unranked entry
RawAt(t) ==
  Snapshot(<< Skill("Overall", Num(t + 1), Num(10 * t), Num(1)),
              Skill("A", Num(t + 1), Num(10 * t), Num(-1)) >>,
           << Activity("T", Num(t), Num(-1)) >>)
DataAt(t) == normalize_snapshot_data(RawAt(t))

\* a snapshot payload: the metadata ingest_result reads, the data, the
\* delta.  fetched_at counts hours; snapshot_id, a uuid5 of the player and
\* the timestamp, is the pair of them
Payload(player, fetched_at, requested_mode, resolved_mode, data, delta) ==
  [snapshot_id |-> <<player, fetched_at>>, player |-> player, fetched_at |-> fetched_at,
   requested_mode |-> requested_mode, resolved_mode |-> resolved_mode,
   data |-> data, delta |-> delta]
NoPayload == Payload("", 0, "", "", Snapshot(<<>>, <<>>), NoneDelta)

\* the payloads handed to ingest_result: snapshots of the players taken at
\* the hours of Hours (p2 was fetched in the first hour only), resolved to a
\* mode the player is listed in, carrying no delta or the delta against the
\* snapshot of hour 0, which lies in the agent's directory and which the
\* store never holds
Hours == { 1, 2 }
FetchedHours(player) == IF player = "p1" THEN Hours ELSE { 1 }
IngestModes == { "main", "ironman" }
PayloadDeltas(t) ==
  { NoneDelta } \cup
  (IF t > 1 THEN { SomeDelta(compute_snapshot_delta(DataAt(0), DataAt(t))) } ELSE {})
PayloadsOf(player) ==
  UNION { { Payload(player, t, "auto", m, DataAt(t), d) :
              m \in IngestModes \cap Habitat(player), d \in PayloadDeltas(t) }
          : t \in FetchedHours(player) }
IngestPayloads == UNION { PayloadsOf(p) : p \in Players }

Workers == { 1, 2 }
\* what an ingest_result call returned or raised
NoOutcome == [status |-> "", error |-> "", snapshot_db_id |-> 0,
              delta |-> NoneDelta, delta_summary |-> NoSummary]
Skipped(id) == [NoOutcome EXCEPT !.status = "skipped", !.snapshot_db_id = id]
Raised(error) == [NoOutcome EXCEPT !.status = "error", !.error = error]
Stored(id, delta, summary) ==
  [status |-> "stored", error |-> "", snapshot_db_id |-> id,
   delta |-> delta, delta_summary |-> summary]

IngIdle == [pc |-> "idle", payload |-> NoPayload, view |-> EmptyDb, account |-> 0,
            account_id |-> 0, snapshot_db_id |-> 0, result |-> NoOutcome]

(***************************************************************************)
(* agents/osrs_snapshot_agent.py.  A snapshot directory is the set of its  *)
(* files; a file is its name (the second it was written in) and its        *)
(* payload.                                                                *)
(***************************************************************************)
\* ingest_result run alone, from its first statement to its commit.
\* Returns <<database, outcome>>.
ingest_result(committed, payload) ==
  LET existing == ExistingId(committed, payload.snapshot_id)
      ensured == _ensure_account(committed, AccountId(committed, payload.player),
                                 payload.player, payload.resolved_mode)
      inserted == InsertSnapshot(ensured[1], payload, ensured[2])
      children == _insert_activities(
                    _insert_skills(inserted[1], inserted[2], payload.data.skills),
                    inserted[2], payload.data.activities)
      done == _insert_delta(children, ensured[2], inserted[2], payload.fetched_at,
                            payload.delta, payload.data)
  IN  IF existing # 0 THEN <<committed, Skipped(existing)>>
      ELSE <<Commit(committed, done[1]),
             Stored(inserted[2], done[2], IngestSummary(done[2]))>>

\* player.replace(" ", "_")
SafePlayer(player) == IF player = "a b" THEN "a_b" ELSE player
Directories == { SafePlayer(p) : p \in AgentPlayers }
NoFiles == [d \in Directories |-> {}]

\* the `mode` values of the accounts handed to run
RunModes == { "Auto", "Ironman " }
\* str.lower() on them
LowerOnly(raw_mode) ==
  CASE raw_mode = "Auto" -> "auto"
    [] raw_mode = "Ironman " -> "ironman "
    [] OTHER -> raw_mode

\* lines 97-103
RunRequestedMode(raw_mode) ==
  LET lowered == LowerOnly(IF raw_mode = "" THEN "main" ELSE raw_mode)
  IN  IF IsAuto(lowered) THEN "auto"
      ELSE IF lowered \in Range(GAME_MODES) THEN lowered
      ELSE "main"

\* _candidate_modes
_candidate_modes(cache_mode, requested_mode) ==
  LET first == IF ~IsAuto(requested_mode) THEN _add_unique(<<>>, requested_mode) ELSE <<>>
      cached == IF cache_mode # "" THEN _add_unique(first, cache_mode) ELSE first
  IN  AddAll(cached, GAME_MODES)

\* _previous_snapshot_path: the last of the sorted names of the directory
\* other than `exclude` (0: no such file)
_previous_snapshot_path(directory, exclude) ==
  LET snapshots == { f \in directory : f.name # exclude }
  IN  IF snapshots = {} THEN 0
      ELSE (CHOOSE f \in snapshots : \A g \in snapshots : g.name <= f.name).name

\* _load_snapshot of a file of the directory
LoadSnapshot(directory, name) == (CHOOSE f \in directory : f.name = name).payload

\* path.write_text: the file of that name is replaced
WriteFile(directory, name, payload) ==
  { f \in directory : f.name # name } \cup { [name |-> name, payload |-> payload] }

\* a SnapshotResult
RunFailed(player) ==
  [success |-> FALSE, player |-> player, path |-> 0, payload |-> NoPayload,
   delta |-> NoneDelta, delta_summary |-> NoSummary]
RunStored(player, path, payload, delta_summary) ==
  [success |-> TRUE, player |-> player, path |-> path, payload |-> payload,
   delta |-> payload.delta, delta_summary |-> delta_summary]
NoRun == RunFailed("")

(***************************************************************************)
(* A batch: SnapshotAgent.run's loop over its accounts, every turn with    *)
(* its own fetch outcomes, and the caller ingesting each stored result.    *)
(***************************************************************************)
MaxBatch == 2

\* the accounts of a batch
BatchAccounts ==
  { [name |-> "zed", mode |-> "Auto"], [name |-> "a b", mode |-> "Auto"],
    [name |-> "a_b", mode |-> "Ironman "] }
Batches == SeqsUpTo(BatchAccounts, MaxBatch)

\* what client.fetch does for a player, mode by mode: only a mode the player
\* is listed under can be found, any mode may fail in transport (the modes
\* the player is not listed under all alike)
FetchKinds(player) ==
  { o \in [Range(GAME_MODES) -> { "found", "not_found", "error" }] :
      /\ \A m \in Range(GAME_MODES) : o[m] = "found" => m \in Habitat(player)
      /\ \A m, n \in Range(GAME_MODES) \ Habitat(player) : o[m] = o[n] }

\* lines 110-125: the first candidate whose fetch answers, "" when none does
FirstFound(candidates, outcome) ==
  LET hits == { i \in Idx(candidates) : outcome[candidates[i]] = "found" }
  IN  IF hits = {} THEN ""
      ELSE candidates[CHOOSE i \in hits : \A j \in hits : i <= j]

\* lines 108, 118-125: last_error after a loop in which no candidate answered
LastError(candidates, outcome) ==
  IF outcome[candidates[Len(candidates)]] = "error"
    THEN Literal("transport error") ELSE Literal("Player not found")

\* lines 110-125: the candidates fetched in a turn, up to the first that answers
TurnFetched(candidates, outcome) ==
  LET hits == { i \in Idx(candidates) : outcome[candidates[i]] = "found" }
  IN  IF hits = {} THEN candidates
      ELSE SubSeq(candidates, 1, CHOOSE i \in hits : \A j \in hits : i <= j)

\* the first of the fetched modes whose fetch raised a transport error, ""
\* when none did
FirstError(fetched, outcome) ==
  LET errs == { i \in Idx(fetched) : outcome[fetched[i]] = "error" }
  IN  IF errs = {} THEN ""
      ELSE fetched[CHOOSE i \in errs : \A j \in errs : i <= j]

\* the Overall xp of the tables of a batch's players: all alike
TableXp == [m \in Range(GAME_MODES) |-> Num(MaxModeXp)]

\* web/services/detect_mode.py lines 78-150 as a function of the cached mode
\* and of what each table answers: the status and the mode of the result
detect_mode(cache_mode, requested_mode, force, outcome, xp) ==
  LET candidates == Candidates(cache_mode)
      answered == SelectSeq(candidates, LAMBDA m : outcome[m] = "found")
      successes == [i \in Idx(answered) |-> [mode |-> answered[i], xp |-> xp[answered[i]]]]
  IN  IF TrustsCache(force, requested_mode, cache_mode)
        THEN [status |-> "found", mode |-> cache_mode]
      ELSE IF ~IsAuto(requested_mode)
        THEN IF requested_mode \notin Range(GAME_MODES)
               THEN [status |-> "error", mode |-> ""]
             ELSE IF outcome[requested_mode] = "found"
               THEN [status |-> "found", mode |-> requested_mode]
             ELSE [status |-> outcome[requested_mode], mode |-> ""]
      ELSE IF \E i \in Idx(candidates) : outcome[candidates[i]] = "error"
        THEN [status |-> "error", mode |-> ""]
      ELSE IF successes = <<>>
        THEN [status |-> "not_found", mode |-> ""]
      ELSE [status |-> "found", mode |-> _pick_best_mode(successes)]

\* what a turn of run's loop did: the requested mode, the modes fetched, the
\* first of them that failed in transport, the mode resolved, and what
\* detect_mode reports for the same player, cache and tables
NoTurn == [requested_mode |-> "", fetched |-> <<>>, erred |-> "", resolved_mode |-> "",
           detect |-> [status |-> "", mode |-> ""]]
TurnOf(st, account, outcome) ==
  LET requested_mode == RunRequestedMode(account.mode)
      cache_mode == CacheGet(st.data, account.name)
      candidates == _candidate_modes(cache_mode, requested_mode)
      fetched == TurnFetched(candidates, outcome)
  IN  [requested_mode |-> requested_mode, fetched |-> fetched,
       erred |-> FirstError(fetched, outcome),
       resolved_mode |-> FirstFound(candidates, outcome),
       detect |-> detect_mode(cache_mode, requested_mode, FALSE, outcome, TableXp)]

\* an entry of run's `results`
BatchResult(result, message) == [result |-> result, message |-> message]

\* what run works on: the snapshot directories, the ModeCache in memory,
\* the results so far, and the caller's database
BatchState(fs, data, dirty, results, database) ==
  [files |-> fs, data |-> data, dirty |-> dirty, results |-> results, db |-> database]

\* lines 127-149: no candidate answered
FailedTurnWithoutResult(st, player, message) == st
FailedTurn(st, player, message) ==
  [st EXCEPT !.results = Append(@, BatchResult(RunFailed(player), message))]

\* lines 151-218, and the job worker's ingest_result on the stored result
\* (job_worker.py lines 126-128, 239-240)
StoredTurn(st, account, requested_mode, resolved_mode, timestamp) ==
  LET player == account.name
      safe_player == SafePlayer(player)
      directory == st.files[safe_player]
      snapshot_path == timestamp.second
      normalized_data == normalize_snapshot_data(RawAt(timestamp.tick))
      previous_path == _previous_snapshot_path(directory, snapshot_path)
      delta == IF previous_path # 0
                 THEN SomeDelta(compute_snapshot_delta(
                        LoadSnapshot(directory, previous_path).data, normalized_data))
                 ELSE NoneDelta
      delta_summary == IF previous_path # 0 THEN summarize_delta(delta.value)
                       ELSE Literal("Initial snapshot.")
      payload == Payload(player, timestamp.tick, requested_mode, resolved_mode,
                         normalized_data, delta)
      upd == CacheUpdate(st.data, st.dirty, player, resolved_mode)
  IN  [st EXCEPT !.files[safe_player] = WriteFile(directory, snapshot_path, payload),
                 !.results = Append(@, BatchResult(
                               RunStored(player, snapshot_path, payload, delta_summary),
                               delta_summary)),
                 !.data = upd[1],
                 !.dirty = upd[2],
                 !.db = ingest_result(@, payload)[1]]

\* lines 95-218: one turn of the loop
RunTurn(st, account, outcome, timestamp) ==
  LET requested_mode == RunRequestedMode(account.mode)
      candidates == _candidate_modes(CacheGet(st.data, account.name), requested_mode)
      resolved_mode == FirstFound(candidates, outcome)
  IN  IF resolved_mode = ""
        THEN FailedTurn(st, account.name, LastError(candidates, outcome))
        ELSE StoredTurn(st, account, requested_mode, resolved_mode, timestamp)

\* no batch
BatchIdle ==
  [pc |-> "returned", accounts |-> <<>>, next |-> 1,
   clock |-> [tick |-> 0, second |-> 0], cacheFile |-> StartCache,
   turn |-> NoTurn,
   st |-> BatchState(NoFiles, StartCache, FALSE, <<>>, EmptyDb)]

(***************************************************************************)
(* Clan statistics: ClanStatsService.compute_stats and get_leaderboard,    *)
(* and the profile's _compute_window_delta, over the snapshots of the      *)
(* members of a clan.                                                      *)
(***************************************************************************)
MaxMembers == 3

\* a snapshot row with its skill and activity rows
ClanSnapshot(id, fetched_at, xp, level, score) ==
  [id |-> id, fetched_at |-> fetched_at, total_xp |-> Num(xp), total_level |-> Num(level),
   skills |-> << [name |-> "Overall", xp |-> Num(xp), level |-> Num(level)],
                 [name |-> "Attack", xp |-> Num(xp), level |-> Num(level)] >>,
   activities |-> << [name |-> "Zulrah", score |-> score] >>]

\* the ids of the snapshots of the account `account_id`
SnapId(account_id, k) == 3 * (account_id - 1) + k

\* the snapshot rows an account may have, in the order of the table
Histories(a) ==
  { <<>>,
    << ClanSnapshot(SnapId(a, 1), 1, 10, 2, Num(0)) >>,
    << ClanSnapshot(SnapId(a, 1), 2, 10, 2, Num(3)) >>,
    << ClanSnapshot(SnapId(a, 1), 1, 10, 2, None), ClanSnapshot(SnapId(a, 3), 2, 15, 3, Num(9)),
       ClanSnapshot(SnapId(a, 2), 3, 20, 2, Num(5)) >>,
    << ClanSnapshot(SnapId(a, 1), 1, 10, 2, Num(1)), ClanSnapshot(SnapId(a, 2), 2, 20, 3, Num(4)) >>,
    << ClanSnapshot(SnapId(a, 2), 2, 8, 3, Num(0)), ClanSnapshot(SnapId(a, 1), 1, 10, 2, Num(2)) >> }

\* _load_members: the members in the order the query lists them, each with
\* its snapshot rows; a member's name is its place in the list
Clans ==
  UNION { { members \in [1..n -> UNION { Histories(a) : a \in 1..n }] :
              \A a \in 1..n : members[a] \in Histories(a) } : n \in 0..MaxMembers }

\* _time_bounds: the window bounds, 0 for None (latest, all-time)
Bounds == { 0, 1, 2 }

\* a query that leaves out the rows fetched exactly at the bound
SnapshotsAfter(rows, since) ==
  LET kept == { i \in Idx(rows) : since = 0 \/ rows[i].fetched_at > since }
      earlier(i) == { j \in kept : rows[j].fetched_at < rows[i].fetched_at
                                     \/ (rows[j].fetched_at = rows[i].fetched_at /\ j < i) }
  IN  [k \in 1..Cardinality(kept) |->
         rows[CHOOSE i \in kept : Cardinality(earlier(i)) = k - 1]]
\* _snapshots_since, and the query of _compute_window_delta: the rows at or
\* after the bound, ORDER BY fetched_at ASC
_snapshots_since(rows, since) ==
  LET kept == { i \in Idx(rows) : since = 0 \/ rows[i].fetched_at >= since }
      earlier(i) == { j \in kept : rows[j].fetched_at < rows[i].fetched_at
                                     \/ (rows[j].fetched_at = rows[i].fetched_at /\ j < i) }
  IN  [k \in 1..Cardinality(kept) |->
         rows[CHOOSE i \in kept : Cardinality(earlier(i)) = k - 1]]

\* a dict built from rows by name: its keys in insertion order, its values
RECURSIVE DictKeys(_)
DictKeys(rows) ==
  IF rows = <<>> THEN <<>>
  ELSE LET before == DictKeys(SubSeq(rows, 1, Len(rows) - 1))
           name == rows[Len(rows)].name
       IN  IF name \in Range(before) THEN before ELSE Append(before, name)
NoRow == [name |-> "", xp |-> None, level |-> None, score |-> None]
DictGet(rows, name) ==
  LET named == { i \in Idx(rows) : rows[i].name = name }
  IN  IF named = {} THEN NoRow ELSE rows[CHOOSE i \in named : \A j \in named : j <= i]

\* dict[name] = dict.get(name, 0) + value, on a list of [name, total] entries
AddTo(entries, name, value) ==
  IF \E i \in Idx(entries) : entries[i].name = name
    THEN [i \in Idx(entries) |->
            IF entries[i].name = name
              THEN [entries[i] EXCEPT !.total = @ + value] ELSE entries[i]]
    ELSE Append(entries, [name |-> name, total |-> value])

\* a skill loop that adds every xp change, also a negative one
RECURSIVE AddSkillGainsSigned(_, _, _, _)
AddSkillGainsSigned(per_skill, names, latest_skills, base_skills) ==
  IF names = <<>> THEN per_skill
  ELSE LET name == Head(names)
           xp_delta == IntOr0(DictGet(latest_skills, name).xp)
                         - IntOr0(DictGet(base_skills, name).xp)
       IN  AddSkillGainsSigned(IF xp_delta # 0 THEN AddTo(per_skill, name, xp_delta)
                               ELSE per_skill,
                               Tail(names), latest_skills, base_skills)
\* lines 148-153: the skill loop's additions to per_skill
RECURSIVE AddSkillGains(_, _, _, _)
AddSkillGains(per_skill, names, latest_skills, base_skills) ==
  IF names = <<>> THEN per_skill
  ELSE LET name == Head(names)
           xp_delta == IntOr0(DictGet(latest_skills, name).xp)
                         - IntOr0(DictGet(base_skills, name).xp)
       IN  AddSkillGains(IF xp_delta > 0 THEN AddTo(per_skill, name, xp_delta) ELSE per_skill,
                         Tail(names), latest_skills, base_skills)

\* lines 148-155: the skill loop's additions to lvl_gain
RECURSIVE LevelUps(_, _, _)
LevelUps(names, latest_skills, base_skills) ==
  IF names = <<>> THEN 0
  ELSE LET level_delta == IntOr0(DictGet(latest_skills, Head(names)).level)
                            - IntOr0(DictGet(base_skills, Head(names)).level)
       IN  (IF level_delta > 0 THEN level_delta ELSE 0)
             + LevelUps(Tail(names), latest_skills, base_skills)

\* an activity loop whose top contributor is the last member of the
\* highest gain
RECURSIVE AddActivityGainsLastTop(_, _, _, _, _)
AddActivityGainsLastTop(per_activity, names, latest_acts, base_acts, member) ==
  IF names = <<>> THEN per_activity
  ELSE LET name == Head(names)
           delta_val == IntOr0(DictGet(latest_acts, name).score)
                          - IntOr0(DictGet(base_acts, name).score)
           known == { i \in Idx(per_activity) : per_activity[i].name = name }
           added ==
             IF known = {}
               THEN Append(per_activity, [name |-> name, total |-> delta_val,
                                          top_member |-> member, top_value |-> delta_val])
               ELSE [i \in Idx(per_activity) |->
                       IF i \notin known THEN per_activity[i]
                       ELSE IF delta_val >= per_activity[i].top_value
                         THEN [per_activity[i] EXCEPT !.total = @ + delta_val,
                                                      !.top_member = member,
                                                      !.top_value = delta_val]
                         ELSE [per_activity[i] EXCEPT !.total = @ + delta_val]]
       IN  AddActivityGainsLastTop(IF delta_val > 0 THEN added ELSE per_activity,
                                   Tail(names), latest_acts, base_acts, member)
\* lines 159-166: the activity loop's additions to per_activity and
\* per_activity_top, kept in one entry per name
RECURSIVE AddActivityGains(_, _, _, _, _)
AddActivityGains(per_activity, names, latest_acts, base_acts, member) ==
  IF names = <<>> THEN per_activity
  ELSE LET name == Head(names)
           delta_val == IntOr0(DictGet(latest_acts, name).score)
                          - IntOr0(DictGet(base_acts, name).score)
           known == { i \in Idx(per_activity) : per_activity[i].name = name }
           added ==
             IF known = {}
               THEN Append(per_activity, [name |-> name, total |-> delta_val,
                                          top_member |-> member, top_value |-> delta_val])
               ELSE [i \in Idx(per_activity) |->
                       IF i \notin known THEN per_activity[i]
                       ELSE IF delta_val > per_activity[i].top_value
                         THEN [per_activity[i] EXCEPT !.total = @ + delta_val,
                                                      !.top_member = member,
                                                      !.top_value = delta_val]
                         ELSE [per_activity[i] EXCEPT !.total = @ + delta_val]]
       IN  AddActivityGains(IF delta_val > 0 THEN added ELSE per_activity,
                            Tail(names), latest_acts, base_acts, member)

\* lines 135-140: the activity loop's additions to per_activity_current
RECURSIVE AddCurrent(_, _, _, _)
AddCurrent(per_activity_current, names, latest_acts, member) ==
  IF names = <<>> THEN per_activity_current
  ELSE LET name == Head(names)
           score == IntOr0(DictGet(latest_acts, name).score)
           entry == [name |-> name, total |-> score, top_member |-> member, top_value |-> score]
           known == { i \in Idx(per_activity_current) : per_activity_current[i].name = name }
           added ==
             IF known = {} THEN Append(per_activity_current, entry)
             ELSE [i \in Idx(per_activity_current) |->
                     IF i \in known /\ score > per_activity_current[i].total
                       THEN entry ELSE per_activity_current[i]]
       IN  AddCurrent(added, Tail(names), latest_acts, member)

\* lines 115-120: the accumulators before the loop
NoStats ==
  [xp |-> 0, level |-> 0, xp_gain |-> 0, level_gain |-> 0, per_skill |-> <<>>,
   per_activity |-> <<>>, per_activity_current |-> <<>>, leaderboard |-> <<>>]

\* lines 122-170: the loop over the first n members
RECURSIVE StatsLoop(_, _, _)
StatsLoop(members, n, since) ==
  IF n = 0 THEN NoStats
  ELSE LET acc == StatsLoop(members, n - 1, since)
           snapshots == _snapshots_since(members[n], since)
           baseline == snapshots[1]
           latest == snapshots[Len(snapshots)]
           xp_gain == IntOr0(latest.total_xp) - IntOr0(baseline.total_xp)
           lvl_gain == IntOr0(latest.total_level) - IntOr0(baseline.total_level)
                         + LevelUps(DictKeys(latest.skills), latest.skills, baseline.skills)
       IN  IF snapshots = <<>> THEN acc
           ELSE [xp |-> acc.xp + IntOr0(latest.total_xp),
                 level |-> acc.level + IntOr0(latest.total_level),
                 xp_gain |-> acc.xp_gain + xp_gain,
                 level_gain |-> acc.level_gain + lvl_gain,
                 per_skill |-> AddSkillGains(acc.per_skill, DictKeys(latest.skills),
                                             latest.skills, baseline.skills),
                 per_activity |-> AddActivityGains(acc.per_activity,
                                    DictKeys(latest.activities), latest.activities,
                                    baseline.activities, n),
                 per_activity_current |-> AddCurrent(acc.per_activity_current,
                                    DictKeys(latest.activities), latest.activities, n),
                 leaderboard |-> Append(acc.leaderboard,
                                   [name |-> n, xp_gain |-> xp_gain, level_gain |-> lvl_gain])]

\* lines 175-179
classify_activity(name) == IF name = "Clue Scrolls (all)" THEN "clues" ELSE "bosses"

\* s[:10]
Top10(entries) == SubSeq(entries, 1, IF Len(entries) < 10 THEN Len(entries) ELSE 10)

RECURSIVE GroupTotal(_, _)
GroupTotal(per_activity, group) ==
  IF per_activity = <<>> THEN 0
  ELSE (IF classify_activity(Head(per_activity).name) = group
          THEN Head(per_activity).total ELSE 0) + GroupTotal(Tail(per_activity), group)

\* sorted(rows, key=..., reverse=True) on one key of the rows
SortedDesc(rows, key) == Items(SortPairsDesc([i \in Idx(rows) |-> <<rows[i][key], rows[i]>>]))
InGroup(entries, group) ==
  LET picked == { i \in Idx(entries) : classify_activity(entries[i].name) = group }
  IN  [k \in 1..Cardinality(picked) |->
         entries[CHOOSE i \in picked : Cardinality({ j \in picked : j < i }) = k - 1]]

\* compute_stats, lines 111-212: what it returns (per_activity_current is
\* filled by the loop and is no part of it)
compute_stats(members, since) ==
  LET acc == StatsLoop(members, Len(members), since)
      all_activities_sorted == SortedDesc(acc.per_activity, "total")
  IN  [since |-> since,
       totals |-> [xp |-> acc.xp, level |-> acc.level, members |-> Len(members),
                   xp_gain |-> acc.xp_gain, level_gain |-> acc.level_gain],
       leaderboard |-> SortedDesc(acc.leaderboard, "xp_gain"),
       top_skills |-> Top10(SortedDesc(acc.per_skill, "total")),
       activities |-> [bosses |-> GroupTotal(acc.per_activity, "bosses"),
                       clues |-> GroupTotal(acc.per_activity, "clues")],
       top_activities |-> Top10(all_activities_sorted),
       top_bosses |-> Top10(InGroup(all_activities_sorted, "bosses")),
       top_clues |-> Top10(InGroup(all_activities_sorted, "clues"))]

\* get_leaderboard, lines 222-240, on the statistics compute_stats returned
LeaderboardByXpOnly(data, metric, page, page_size) ==
  LET total == Len(data.leaderboard)
      size == IF page_size < 1 THEN 1 ELSE IF page_size > 50 THEN 50 ELSE page_size
      offset == ((IF page < 1 THEN 1 ELSE page) - 1) * size
  IN  [total |-> total, offset |-> offset, limit |-> size, metric |-> metric,
       rows |-> SubSeq(data.leaderboard, offset + 1,
                       IF offset + size < total THEN offset + size ELSE total)]
get_leaderboard(data, metric, page, page_size) ==
  LET rows == IF metric = "levels" THEN SortedDesc(data.leaderboard, "level_gain")
              ELSE data.leaderboard
      total == Len(rows)
      size == IF page_size < 1 THEN 1 ELSE IF page_size > 50 THEN 50 ELSE page_size
      offset == ((IF page < 1 THEN 1 ELSE page) - 1) * size
  IN  [total |-> total, offset |-> offset, limit |-> size, metric |-> metric,
       rows |-> SubSeq(rows, offset + 1,
                       IF offset + size < total THEN offset + size ELSE total)]

\* _compute_window_delta, lines 103-195 (None: no snapshot in the window)
NoWindow == [some |-> FALSE, current_snapshot_id |-> 0, previous_snapshot_id |-> 0,
             total_xp_delta |-> 0, skill_deltas |-> <<>>, activity_deltas |-> <<>>]
WindowDeltaRecomputing(rows, since) ==
  LET snaps == _snapshots_since(rows, since)
      baseline == snaps[1]
      latest == snaps[Len(snaps)]
      names == DictKeys(latest.skills)
      acts == DictKeys(latest.activities)
  IN  IF snaps = <<>> THEN NoWindow
      ELSE [some |-> TRUE, current_snapshot_id |-> latest.id,
            previous_snapshot_id |-> baseline.id,
            total_xp_delta |-> IntOr0(latest.total_xp) - IntOr0(baseline.total_xp),
            skill_deltas |->
              [i \in Idx(names) |->
                 [name |-> names[i],
                  xp_delta |-> IntOr0(DictGet(latest.skills, names[i]).xp)
                                 - IntOr0(DictGet(baseline.skills, names[i]).xp),
                  level_delta |-> IntOr0(DictGet(latest.skills, names[i]).level)
                                    - IntOr0(DictGet(baseline.skills, names[i]).level)]],
            activity_deltas |->
              [i \in Idx(acts) |->
                 [name |-> acts[i],
                  score_delta |-> IntOr0(DictGet(latest.activities, acts[i]).score)
                                    - IntOr0(DictGet(baseline.activities, acts[i]).score)]]]
_compute_window_delta(rows, since) ==
  LET snaps == _snapshots_since(rows, since)
  IN  IF snaps # <<>> /\ snaps[1].id = snaps[Len(snaps)].id
        THEN [NoWindow EXCEPT !.some = TRUE, !.current_snapshot_id = snaps[1].id,
                              !.previous_snapshot_id = snaps[1].id]
        ELSE WindowDeltaRecomputing(rows, since)

\* the page sizes and metrics asked for
PageSizes == { 0, 2 }
Metrics == { "xp", "levels" }
NoBoard == [metric |-> "", page_size |-> 0, page |-> 0, total |-> 0, rows |-> <<>>]

\* no statistics asked for yet
StatsPending == [compute_stats(<<>>, 0) EXCEPT !.since = -1]

(***************************************************************************)
(* ModeCache with its file: the records in memory, the JSON text on the    *)
(* path, and the calls of one process after another on that path.          *)
(***************************************************************************)
MaxUpdates == 3

\* a ModeRecord, and the lack of one
ModeRecord(mode, updated_at) == [present |-> TRUE, mode |-> mode, updated_at |-> updated_at]
NoRecord == [present |-> FALSE, mode |-> "", updated_at |-> 0]
NoRecords == [player \in Players |-> NoRecord]

\* the file: missing, or not JSON, or a JSON object of player -> entry
NoFile == [exists |-> FALSE, json |-> FALSE, raw |-> NoRecords]
BrokenFile == [exists |-> TRUE, json |-> FALSE, raw |-> NoRecords]

\* _load, lines 27-38: the entries with a mode become records
_load(file) ==
  IF ~file.exists \/ ~file.json THEN NoRecords
  ELSE [player \in Players |->
          IF file.raw[player].present /\ file.raw[player].mode # ""
            THEN ModeRecord(file.raw[player].mode, file.raw[player].updated_at)
            ELSE NoRecord]

\* __init__, lines 21-25
NewModeCache(file) == [data |-> _load(file), dirty |-> FALSE]

\* get, lines 40-44 ("" for None)
get(cache, player) ==
  IF ~cache.data[player].present THEN "" ELSE cache.data[player].mode

\* update, lines 46-52
UpdateKeepsFirst(cache, player, mode, timestamp) ==
  IF cache.data[player].present THEN cache
  ELSE [data |-> [cache.data EXCEPT ![player] = ModeRecord(mode, timestamp)],
        dirty |-> TRUE]
\* an update that stamps the record anew also when the mode is the same
UpdateAlwaysStamps(cache, player, mode, timestamp) ==
  [data |-> [cache.data EXCEPT ![player] = ModeRecord(mode, timestamp)],
   dirty |-> TRUE]
update(cache, player, mode, timestamp) ==
  IF cache.data[player].present /\ cache.data[player].mode = mode THEN cache
  ELSE [data |-> [cache.data EXCEPT ![player] = ModeRecord(mode, timestamp)],
        dirty |-> TRUE]

\* a persist that keeps the entries of the file the cache has no record for
PersistMerging(cache, file) ==
  IF ~cache.dirty THEN <<cache, file>>
  ELSE <<[cache EXCEPT !.dirty = FALSE],
         [exists |-> TRUE, json |-> TRUE,
          raw |-> [player \in Players |->
                     IF cache.data[player].present THEN cache.data[player]
                     ELSE _load(file)[player]]]>>
\* persist, lines 54-63: the file after the call, and the cache
persist(cache, file) ==
  IF ~cache.dirty THEN <<cache, file>>
  ELSE <<[cache EXCEPT !.dirty = FALSE],
         [exists |-> TRUE, json |-> TRUE, raw |-> cache.data]>>

\* the modes written to the cache
CachedModes == { "main", "hardcore" }

\* no cache in use
McIdle ==
  [file |-> NoFile, cache |-> NewModeCache(NoFile), updates |-> 0, unsaved |-> FALSE,
   fresh |-> FALSE, last |-> [player \in Players |-> ""]]

(***************************************************************************)
(* normalize_snapshot_data on a heap: the argument is an object at an      *)
(* address, deepcopy makes a second object, and the sanitizing loops       *)
(* write into the object `data` names.                                     *)
(***************************************************************************)
\* the argument's address and the address deepcopy allocates
RAW == 1
COPY == 2
Addresses == { RAW, COPY }
NoObject == Snapshot(<<>>, <<>>)

\* line 11: deepcopy(raw_data), the heap after it and the address of the copy
deepcopyAliased(h, addr) == <<h, addr>>
deepcopy(h, addr) == <<[h EXCEPT ![COPY] = h[addr]], COPY>>

\* lines 22-26: _sanitize_number_fields(item, keys); a key the item lacks
\* reads as None and is left alone
SanitizeEveryKey(item, keys) ==
  [k \in DOMAIN item |-> Sanitize(item[k])]
_sanitize_number_fields(item, keys) ==
  [k \in DOMAIN item |-> IF k \in keys THEN Sanitize(item[k]) ELSE item[k]]

\* the raw entries of the hiscore answer: numbers, the -1 sentinel, null,
\* text, and a field no loop sanitizes (a skill's score, an activity's xp)
RawValues == { Num(-1), Num(0), Num(2) }
RawSkills ==
  { Skill(Str, l, Num(2), r) : l \in RawValues, r \in { Num(-1), None } }
    \cup { [name |-> Str, level |-> Num(1), xp |-> Num(-2), rank |-> Str, score |-> Num(-1)] }
RawActivities ==
  { Activity(Str, sc, r) : sc \in RawValues, r \in { Num(-1), Str } }
    \cup { [name |-> Str, score |-> None, rank |-> Num(3), xp |-> Num(-1)] }
RawInputs ==
  { Snapshot(sk, ac) : sk \in SeqsUpTo(RawSkills, MaxLen), ac \in SeqsUpTo(RawActivities, 1) }

(***************************************************************************)
(* The totals of a skill list: the report's _total_level and _total_xp,    *)
(* the migration's calculate_total_values, the ingest service's            *)
(* _total_from_skills and the import script's total_from_skills.           *)
(***************************************************************************)
\* the value of a key the entry does not have
Missing == <<"missing", 0>>

\* report_builder.py lines 126-129
_safe_int(value) == IF IsNum(value) THEN value[2] ELSE 0

\* report_builder.py lines 118-119
_total_xp(skills) == SumSeq([i \in Idx(skills) |-> _safe_int(skills[i].xp)])

\* report_builder.py lines 122-124
_total_level(skills) ==
  SumSeq([i \in Idx(skills) |->
            IF skills[i].name # "Overall" THEN _safe_int(skills[i].level) ELSE 0])

\* what a call gives: the pair of totals, or an exception
Totals(total_level, total_xp) ==
  [raised |-> FALSE, total_level |-> total_level, total_xp |-> total_xp]
RaisedTypeError == [raised |-> TRUE, total_level |-> 0, total_xp |-> 0]

\* skill.get(key, 0): the default stands in for a missing key only
GetOr0(v) == IF v = Missing THEN Num(0) ELSE v

\* migrations.py lines 66-78: sum() over the values as they are; adding a
\* null to a number raises TypeError.  The xp sum runs over every entry,
\* the level sum over the entries not named "Overall".
calculate_total_values(skills) ==
  LET xps == [i \in Idx(skills) |-> GetOr0(skills[i].xp)]
      counted == { i \in Idx(skills) : skills[i].name # "Overall" }
      levels == [i \in Idx(skills) |-> GetOr0(skills[i].level)]
  IN  IF \E i \in Idx(skills) : ~IsNum(xps[i]) THEN RaisedTypeError
      ELSE IF \E i \in counted : ~IsNum(levels[i]) THEN RaisedTypeError
      ELSE Totals(SumSeq([i \in Idx(skills) |-> IF i \in counted THEN levels[i][2] ELSE 0]),
                  SumSeq([i \in Idx(skills) |-> xps[i][2]]))

\* import_snapshots_to_db.py lines 42-57, the same code as _total_from_skills
total_from_skills(skills) ==
  LET overall == { i \in Idx(skills) : Lower(skills[i].name) = "overall" }
      first == CHOOSE i \in overall : \A j \in overall : i <= j
      level0 == IF overall = {} THEN 0 ELSE IntOr0(skills[first].level)
      xp0 == IF overall = {} THEN 0 ELSE IntOr0(skills[first].xp)
      total_level == IF level0 = 0
                       THEN SumSeq([i \in Idx(skills) |-> IntOr0(skills[i].level)])
                       ELSE level0
      total_xp == IF xp0 = 0
                    THEN SumSeq([i \in Idx(skills) |-> IntOr0(skills[i].xp)])
                    ELSE xp0
  IN  <<total_level, total_xp>>

\* the skill lists the totals are taken of
TotalLevels == { Num(0), Num(2), None, Missing }
TotalXps == { Num(0), Num(5), None }
TotalEntries ==
  { [name |-> n, level |-> l, xp |-> x] :
      n \in { "Overall", "Attack" }, l \in TotalLevels, x \in TotalXps }
TotalInputs == SeqsUpTo(TotalEntries, MaxLen)
TotalFunctions ==
  { "_total_level", "calculate_total_values", "_total_from_skills", "total_from_skills" }

(***************************************************************************)
(* scripts/import_snapshots_to_db.py: import_snapshots over the snapshot   *)
(* files of a root directory, on one connection, next to direct calls of  *)
(* ingest_result on the same database.                                     *)
(***************************************************************************)
MaxDirect == 1

\* the str "" as a snapshot id, and a value sqlite3 cannot bind (a dict)
EmptyId == <<>>
Unbindable == <<"dict", 0>>

\* a snapshot file: its directory, its name, whether json.loads reads it,
\* and what its metadata and data hold
SnapshotFile(dir, name, player, snapshot_id, fetched_at, data) ==
  [dir |-> dir, name |-> name, readable |-> TRUE, player |-> player,
   snapshot_id |-> snapshot_id, resolved_mode |-> "main", fetched_at |-> fetched_at,
   data |-> data]
Unreadable(dir, name) ==
  [SnapshotFile(dir, name, "", EmptyId, 0, Snapshot(<<>>, <<>>)) EXCEPT !.readable = FALSE]

\* lines 168-187: the activity rows, up to the first whose score cannot be
\* bound; conn.execute raises on that one
ImportActivities(view, snapshot_db_id, activities) ==
  LET bad == { i \in Idx(activities) : activities[i].score = Unbindable }
      upto == IF bad = {} THEN Len(activities)
              ELSE (CHOOSE i \in bad : \A j \in bad : i <= j) - 1
  IN  [view |-> _insert_activities(view, snapshot_db_id, SubSeq(activities, 1, upto)),
       raised |-> bad # {}]

\* lines 74-187: one turn of the loop on the connection's view
import_file(view, file) ==
  LET player == IF file.player # "" THEN file.player ELSE file.dir
      resolved_mode == IF file.resolved_mode # "" THEN file.resolved_mode ELSE "main"
      ensured == _ensure_account(view, AccountId(view, player), player, resolved_mode)
      inserted == InsertSnapshot(ensured[1],
                    [Payload(player, file.fetched_at, "auto", resolved_mode, file.data,
                             NoneDelta) EXCEPT !.snapshot_id = file.snapshot_id],
                    ensured[2])
      acts == ImportActivities(_insert_skills(inserted[1], inserted[2], file.data.skills),
                               inserted[2], file.data.activities)
      skip == [view |-> view, raised |-> FALSE, skipped |-> TRUE]
  IN  IF ~file.readable THEN skip
      ELSE IF file.snapshot_id = EmptyId \/ player = "" THEN skip
      ELSE IF ExistingId(view, file.snapshot_id) # 0 THEN skip
      ELSE [view |-> acts.view, raised |-> acts.raised, skipped |-> FALSE]

\* the files under the root: two of p1 and one with an empty snapshot id,
\* one of p2 whose metadata names no player, one that is no JSON; the
\* second of p1 holds a score that is a dict
ImportDirs == { "p1", "p2" }
FilesIn(dir) ==
  IF dir = "p1"
    THEN << SnapshotFile("p1", 1, "p1", <<"p1", 1>>, 1, DataAt(1)),
            SnapshotFile("p1", 2, "p1", <<"p1", 2>>, 2,
                         Snapshot(DataAt(2).skills, << Activity("T", Unbindable, None) >>)),
            SnapshotFile("p1", 3, "p1", EmptyId, 3, DataAt(2)) >>
    ELSE << SnapshotFile("p2", 1, "", <<"p2", 1>>, 1, DataAt(1)),
            Unreadable("p2", 2) >>
\* sorted(player_dir.glob("*.json")) of a directory that holds some of them
Kept(listing, keep) ==
  [k \in 1..Cardinality(keep) |->
     listing[CHOOSE i \in keep : Cardinality({ j \in keep : j < i }) = k - 1]]
DirListings(dir) == { Kept(FilesIn(dir), keep) : keep \in SUBSET Idx(FilesIn(dir)) }
\* iter_snapshot_files: the directories in the order iterdir gives
ImportRoots ==
  { a \o b : a \in DirListings("p1"), b \in DirListings("p2") }
    \cup { b \o a : a \in DirListings("p1"), b \in DirListings("p2") }

\* the payloads of the direct calls: a sound one, one with the snapshot id
\* "", one with the player name ""
DirectPayloads ==
  { Payload("p1", 1, "auto", "main", DataAt(1), NoneDelta),
    [Payload("p1", 2, "auto", "main", DataAt(2), NoneDelta) EXCEPT !.snapshot_id = EmptyId],
    Payload("", 1, "auto", "main", DataAt(1), NoneDelta) }

\* no import running, no direct call made
ImpIdle == [pc |-> "idle", files |-> <<>>, next |-> 1, view |-> EmptyDb,
            skipped |-> 0, direct |-> 0, last |-> NoPayload]

(***************************************************************************)
(* One cache file under two processes: each makes a ModeCache on the path  *)
(* (SnapshotAgent.__init__, detect_mode line 84), updates it and persists  *)
(* it (run lines 218-220, detect_mode lines 133-134).                      *)
(***************************************************************************)
Procs == { 1, 2 }

\* a file that holds the mode of p1
SeedFile ==
  [exists |-> TRUE, json |-> TRUE,
   raw |-> [player \in Players |->
              IF player = "p1" THEN ModeRecord("main", 0) ELSE NoRecord]]

\* a process before it made its ModeCache; `base` is the file it loaded,
\* `touched` whether an update changed a mode since the load or the last
\* persist, `own` the players whose mode its updates changed
NoInstance ==
  [made |-> FALSE, cache |-> NewModeCache(NoFile), base |-> NoFile, touched |-> FALSE,
   own |-> {}]
ShIdle ==
  [file |-> NoFile, inst |-> [p \in Procs |-> NoInstance], now |-> 0,
   op |-> <<"", 0>>, writers |-> <<>>]

(***************************************************************************)
(* web/services/jobs.py: the jobs table under concurrent callers of        *)
(* fetch_next_pending, each on a connection of its own (JobService makes   *)
(* its DatabaseConnection with reuse_connection=False).                    *)
(***************************************************************************)
MaxJobs == 2
Callers == { 1, 2 }

\* a row of the table: its status and the callers it was returned to
Job(status) == [status |-> status, returned_to |-> <<>>, marked |-> FALSE]
NoJobs == [rows |-> <<>>, lock |-> 0]
CallerIdle == [pc |-> "idle", job |-> 0]

\* lines 48-55: SELECT ... WHERE status = 'pending' ORDER BY created_at ASC
\* LIMIT 1 on the committed table (0: no row)
NextPending(rows) ==
  LET pending == { i \in Idx(rows) : rows[i].status = "pending" }
  IN  IF pending = {} THEN 0 ELSE CHOOSE i \in pending : \A j \in pending : i <= j

(***************************************************************************)
(* summarize_delta on deltas as compute_snapshot_delta returns them: both  *)
(* lists in descending order, every skill entry with a gain of xp or of    *)
(* level.  A name is the entry's place in the hiscore table.               *)
(***************************************************************************)
MaxItems == 4

\* the skill lists: some of the skills 1..MaxItems, the xp gain falling
\* with the place (the last has none), each with or without a level gain
SummarySkills ==
  { Kept([i \in 1..MaxItems |->
            [name |-> i, xp_delta |-> MaxItems - i, level_delta |-> IF i \in ups THEN 1 ELSE 0]],
         keep) :
      keep \in SUBSET (1..MaxItems), ups \in { u \in SUBSET (1..MaxItems) : MaxItems \in u } }
\* the activity lists: some of the activities 1..MaxItems, the gain falling
\* with the place
SummaryActivities ==
  { Kept([i \in 1..MaxItems |-> [name |-> i, score_delta |-> MaxItems + 1 - i]], keep) :
      keep \in SUBSET (1..MaxItems) }
SummaryTotals == { 0, 5, -5 }
SummaryInputs ==
  { [total_xp_delta |-> t, skill_deltas |-> sk, activity_deltas |-> ac] :
      t \in SummaryTotals, sk \in SummarySkills, ac \in SummaryActivities }

\* no summary asked for
SmIdle == [delta |-> NoDelta, out |-> NoSummary]

(***************************************************************************)
(* State.                                                                  *)
(***************************************************************************)
VARIABLES
  dPrev,    \* delta engine: the `previous` argument
  dCurr,    \* delta engine: the `current` argument
  dOut,     \* delta engine: the returned delta
  dPc,      \* delta engine: "call" before compute_snapshot_delta ran, "done" after
  cacheFile,\* config/mode_cache.json: player -> mode, "" for no record
  dm,       \* the running detect_mode call: its locals, its fetches, its result
  db,       \* the committed database, what any reader sees
  lock,     \* the worker holding SQLite's write lock, 0 for none
  ing,      \* per worker: its ingest_result call, its open transaction's view
  calls,    \* ingest_result calls made so far
  files,    \* the snapshot directories: safe player name -> set of files
  clock,    \* the time of the latest run: its tick and its second
  res,      \* the SnapshotResult of the latest run
  heap,     \* normalize_snapshot_data: the objects, by address
  nArg0,    \* normalize_snapshot_data: the value `raw_data` had at the call
  nPc,      \* normalize_snapshot_data: the line reached
  nOut,     \* normalize_snapshot_data: the address returned, 0 before
  tSkills,  \* totals: the skill list
  tFn,      \* totals: the function called on it, "" before the call
  tOut,     \* totals: what the call gave
  batch,    \* run on a batch: its accounts, its position, what it works on
  shadow,   \* the same run on the batch without the accounts that failed
  cMembers, \* clan: the members, each with its snapshot rows
  cSince,   \* clan: the window bound
  cStats,   \* clan: what compute_stats returned
  cWindow,  \* clan: per member, what _compute_window_delta returned
  cBoard,   \* clan: the leaderboard pages fetched so far, joined
  mc,       \* ModeCache: the file, the instance in use, the updates made
  imp,      \* import_snapshots: its files, its position, its connection's view
  sh,       \* a cache file shared by two processes, each with a ModeCache
  jobs,     \* the jobs table as committed, and the holder of the write lock
  jw,       \* per caller: its fetch_next_pending call and the job it holds
  sm        \* summarize_delta: the delta handed to it and what it returned

deltaVars == <<dPrev, dCurr, dOut, dPc>>
modeVars == <<cacheFile, dm>>
storeVars == <<db, lock, ing, calls>>
agentVars == <<files, clock, res>>
normVars == <<heap, nArg0, nPc, nOut>>
totalVars == <<tSkills, tFn, tOut>>
batchVars == <<batch, shadow>>
clanVars == <<cMembers, cSince, cStats, cWindow, cBoard>>
cacheVars == <<mc>>
importVars == <<imp>>
sharedVars == <<sh>>
jobVars == <<jobs, jw>>
summaryVars == <<sm>>
lateVars == <<importVars, sharedVars, jobVars, summaryVars>>
auxVars == <<normVars, totalVars, batchVars, clanVars, cacheVars, lateVars>>
vars == <<deltaVars, modeVars, storeVars, agentVars, auxVars>>

\* the delta engine at rest
IdleDelta ==
  /\ dPrev = Snapshot(<<>>, <<>>) /\ dCurr = Snapshot(<<>>, <<>>)
  /\ dOut = NoDelta /\ dPc = "done"

\* the mode resolver at rest
IdleMode == cacheFile = StartCache /\ dm = DmIdle

\* no snapshot file, no run yet
IdleAgent == files = NoFiles /\ clock = [tick |-> 0, second |-> 0] /\ res = NoRun

\* no normalization running
IdleNorm ==
  /\ heap = [a \in Addresses |-> NoObject] /\ nArg0 = NoObject
  /\ nPc = "idle" /\ nOut = 0

\* no total asked for
IdleTotals == tSkills = <<>> /\ tFn = "" /\ tOut = Totals(0, 0)

\* no batch running
IdleBatch == batch = BatchIdle /\ shadow = BatchIdle.st

\* no clan looked at
IdleClan ==
  /\ cMembers = <<>> /\ cSince = 0 /\ cStats = StatsPending
  /\ cWindow = <<>> /\ cBoard = NoBoard

\* no mode cache in use
IdleCache == mc = McIdle

\* no import started
IdleImport == imp = ImpIdle

\* no process on the shared cache file
IdleShared == sh = ShIdle

\* no job queued, no caller
IdleJobs == jobs = NoJobs /\ jw = [w \in Callers |-> CallerIdle]

\* no summary asked for
IdleSummary == sm = SmIdle

\* the import, the shared cache file, the job queue and the summary at rest
IdleLate == IdleImport /\ IdleShared /\ IdleJobs /\ IdleSummary

\* everything but the delta engine, the resolver, the store and the agent
IdleAux == IdleNorm /\ IdleTotals /\ IdleBatch /\ IdleClan /\ IdleCache /\ IdleLate

\* the store empty, no call running
IdleStore ==
  /\ db = EmptyDb /\ lock = 0
  /\ ing = [w \in Workers |-> IngIdle] /\ calls = 0

(***************************************************************************)
(* SpecMode: detect_mode, one fetch per step.                              *)
(***************************************************************************)
InitMode == IdleDelta /\ IdleMode /\ IdleStore /\ IdleAgent /\ IdleAux

\* lines 84-100 and 113-126: load the cache, then return at once or set out
\* to fetch.  file0 remembers the cache file as the call found it.
DmCall(player, requested_raw, force) ==
  LET requested_mode == LowerStrip(requested_raw)
      data == cacheFile                      \* ModeCache.__init__ / _load
      cache_mode == CacheGet(data, player)
      call == [DmIdle EXCEPT !.player = player, !.requested_mode = requested_mode,
                             !.force = force, !.cache_mode = cache_mode,
                             !.data = data, !.file0 = cacheFile]
  IN  /\ dm.pc = "idle"
      /\ dm' =
           IF TrustsCache(force, requested_mode, cache_mode)
             THEN [call EXCEPT !.pc = "done",
                               !.result = Result("found", cache_mode, TRUE, TRUE, <<>>)]
           ELSE IF ~IsAuto(requested_mode)
             THEN IF requested_mode \notin Range(GAME_MODES)
                    THEN [call EXCEPT !.pc = "done",
                                      !.result = Result("error", "", FALSE, FALSE, <<>>)]
                    ELSE [call EXCEPT !.pc = "explicit"]
           ELSE [call EXCEPT !.pc = "probe", !.candidates = Candidates(cache_mode)]
      /\ UNCHANGED cacheFile

\* lines 101-111: the one fetch of an explicit mode
DmExplicitFetch ==
  /\ dm.pc = "explicit"
  /\ \E o \in FetchOutcomes(dm.player, dm.requested_mode) :
       LET upd == CacheUpdate(dm.data, dm.dirty, dm.player, dm.requested_mode)
           fetched == Append(dm.fetched, dm.requested_mode)
           outcomes == Append(dm.outcomes, o.kind)
       IN  CASE o.kind = "found" ->
                  /\ cacheFile' = CachePersist(cacheFile, upd[1], upd[2])
                  /\ dm' = [dm EXCEPT !.pc = "done", !.fetched = fetched,
                                      !.outcomes = outcomes,
                                      !.data = upd[1], !.dirty = FALSE,
                                      !.result = Result("found", dm.requested_mode,
                                                        FALSE, FALSE, <<>>)]
             [] o.kind = "not_found" ->
                  /\ dm' = [dm EXCEPT !.pc = "done", !.fetched = fetched,
                                      !.outcomes = outcomes,
                                      !.result = Result("not_found", "", FALSE, FALSE, <<>>)]
                  /\ UNCHANGED cacheFile
             [] o.kind = "error" ->
                  /\ dm' = [dm EXCEPT !.pc = "done", !.fetched = fetched,
                                      !.outcomes = outcomes,
                                      !.result = Result("error", "", FALSE, FALSE, <<>>)]
                  /\ UNCHANGED cacheFile

\* lines 130-138: one turn of the probe loop on the call `call`, the fetch of
\* `mode` ending in outcome o
ProbeTurnErrorContinues(call, mode, o) ==
  LET seen == [call EXCEPT !.fetched = Append(@, mode), !.outcomes = Append(@, o.kind)]
  IN  IF o.kind = "found"
        THEN [seen EXCEPT !.next = @ + 1,
                          !.successes = Append(@, [mode |-> mode, xp |-> o.xp])]
        ELSE [seen EXCEPT !.next = @ + 1]
ProbeTurn(call, mode, o) ==
  LET seen == [call EXCEPT !.fetched = Append(@, mode), !.outcomes = Append(@, o.kind)]
  IN  CASE o.kind = "found" ->
             [seen EXCEPT !.next = @ + 1,
                          !.successes = Append(@, [mode |-> mode, xp |-> o.xp])]
        [] o.kind = "not_found" -> [seen EXCEPT !.next = @ + 1]
        [] o.kind = "error" ->
             [seen EXCEPT !.pc = "done",
                          !.result = Result("error", "", FALSE, FALSE, <<>>)]

DmProbe ==
  /\ dm.pc = "probe"
  /\ dm.next <= Len(dm.candidates)
  /\ LET mode == dm.candidates[dm.next]
     IN  \E o \in FetchOutcomes(dm.player, mode) :
           /\ o.kind = "found" => Len(dm.successes) < MaxMatched
           /\ dm' = ProbeTurn(dm, mode, o)
  /\ UNCHANGED cacheFile

\* lines 140-150: after the loop
DmFinish ==
  /\ dm.pc = "probe"
  /\ dm.next > Len(dm.candidates)
  /\ IF dm.successes = <<>>
       THEN /\ dm' = [dm EXCEPT !.pc = "done",
                                !.result = Result("not_found", "", FALSE, FALSE, <<>>)]
            /\ UNCHANGED cacheFile
       ELSE LET best_mode == _pick_best_mode(dm.successes)
                upd == CacheUpdate(dm.data, dm.dirty, dm.player, best_mode)
            IN  /\ cacheFile' = CachePersist(cacheFile, upd[1], upd[2])
                /\ dm' = [dm EXCEPT
                            !.pc = "done", !.data = upd[1], !.dirty = FALSE,
                            !.result = Result("found", best_mode, FALSE, TRUE,
                                              [i \in Idx(dm.successes) |->
                                                 dm.successes[i].mode])]

\* the caller takes the result; the call's locals are gone
DmReturn ==
  /\ dm.pc = "done"
  /\ dm' = DmIdle
  /\ UNCHANGED cacheFile

NextMode ==
  \/ \E player \in Players, requested_raw \in RequestedModes, force \in BOOLEAN :
       DmCall(player, requested_raw, force) /\ UNCHANGED <<deltaVars, storeVars, agentVars, auxVars>>
  \/ DmExplicitFetch /\ UNCHANGED <<deltaVars, storeVars, agentVars, auxVars>>
  \/ DmProbe /\ UNCHANGED <<deltaVars, storeVars, agentVars, auxVars>>
  \/ DmFinish /\ UNCHANGED <<deltaVars, storeVars, agentVars, auxVars>>
  \/ DmReturn /\ UNCHANGED <<deltaVars, storeVars, agentVars, auxVars>>

SpecMode == InitMode /\ [][NextMode]_vars

(***************************************************************************)
(* SpecDelta: compute_snapshot_delta applied to every pair of inputs.      *)
(***************************************************************************)
InitDelta ==
  /\ IdleMode
  /\ IdleStore
  /\ IdleAgent
  /\ IdleAux
  /\ dPrev \in DeltaInputs
  /\ dCurr \in DeltaInputs
  /\ (dPrev.activities = <<>> /\ dCurr.activities = <<>>)
       \/ (dPrev.skills = <<>> /\ dCurr.skills = <<>>)
  /\ dOut = NoDelta
  /\ dPc = "call"

ComputeDelta ==
  /\ dPc = "call"
  /\ dOut' = compute_snapshot_delta(dPrev, dCurr)
  /\ dPc' = "done"
  /\ UNCHANGED <<dPrev, dCurr>>
  /\ UNCHANGED <<modeVars, storeVars, agentVars, auxVars>>

NextDelta == ComputeDelta

SpecDelta == InitDelta /\ [][NextDelta]_vars

(***************************************************************************)
(* SpecNorm: normalize_snapshot_data called on every raw input, line by    *)
(* line.                                                                   *)
(***************************************************************************)
InitNorm ==
  /\ IdleDelta /\ IdleMode /\ IdleStore /\ IdleAgent /\ IdleTotals /\ IdleBatch /\ IdleClan /\ IdleCache /\ IdleLate
  /\ \E raw_data \in RawInputs :
       /\ heap = [a \in Addresses |-> IF a = RAW THEN raw_data ELSE NoObject]
       /\ nArg0 = raw_data
  /\ nPc = "copy"
  /\ nOut = 0

\* line 11: data = deepcopy(raw_data); `data` is kept in nOut, the address
\* the function works on and returns
NormCopy ==
  /\ nPc = "copy"
  /\ LET made == deepcopy(heap, RAW)
     IN  heap' = made[1] /\ nOut' = made[2]
  /\ nPc' = "skills"
  /\ UNCHANGED nArg0

\* lines 13-14: the loop over data["skills"]
NormSkills ==
  /\ nPc = "skills"
  /\ heap' = [heap EXCEPT ![nOut].skills =
               [i \in Idx(@) |-> _sanitize_number_fields(@[i], { "rank", "level", "xp" })]]
  /\ nPc' = "activities"
  /\ UNCHANGED <<nArg0, nOut>>

\* lines 16-19: the loop over data["activities"], and the return
NormActivities ==
  /\ nPc = "activities"
  /\ heap' = [heap EXCEPT ![nOut].activities =
               [i \in Idx(@) |-> _sanitize_number_fields(@[i], { "rank", "score" })]]
  /\ nPc' = "returned"
  /\ UNCHANGED <<nArg0, nOut>>

NextNorm ==
  \/ NormCopy /\ UNCHANGED <<deltaVars, modeVars, storeVars, agentVars, totalVars, batchVars, clanVars, cacheVars, lateVars>>
  \/ NormSkills /\ UNCHANGED <<deltaVars, modeVars, storeVars, agentVars, totalVars, batchVars, clanVars, cacheVars, lateVars>>
  \/ NormActivities /\ UNCHANGED <<deltaVars, modeVars, storeVars, agentVars, totalVars, batchVars, clanVars, cacheVars, lateVars>>

SpecNorm == InitNorm /\ [][NextNorm]_vars

(***************************************************************************)
(* SpecTotals: each of the four total functions called on every skill     *)
(* list.                                                                   *)
(***************************************************************************)
InitTotals ==
  /\ IdleDelta /\ IdleMode /\ IdleStore /\ IdleAgent /\ IdleNorm /\ IdleBatch /\ IdleClan /\ IdleCache /\ IdleLate
  /\ tSkills \in TotalInputs
  /\ tFn = ""
  /\ tOut = Totals(0, 0)

\* report_builder.py lines 23-24
ReportTotals ==
  /\ tFn = ""
  /\ tFn' = "_total_level"
  /\ tOut' = Totals(_total_level(tSkills), _total_xp(tSkills))
  /\ UNCHANGED tSkills

\* migrations.py line 144
MigrationTotals ==
  /\ tFn = ""
  /\ tFn' = "calculate_total_values"
  /\ tOut' = calculate_total_values(tSkills)
  /\ UNCHANGED tSkills

\* snapshot_ingest.py lines 169-172, the metadata giving no totals
IngestTotals ==
  /\ tFn = ""
  /\ tFn' = "_total_from_skills"
  /\ LET totals == _total_from_skills(tSkills)
     IN  tOut' = Totals(totals[1], totals[2])
  /\ UNCHANGED tSkills

\* import_snapshots_to_db.py line 114
ImportTotals ==
  /\ tFn = ""
  /\ tFn' = "total_from_skills"
  /\ LET totals == total_from_skills(tSkills)
     IN  tOut' = Totals(totals[1], totals[2])
  /\ UNCHANGED tSkills

NextTotals ==
  \/ ReportTotals /\ UNCHANGED <<deltaVars, modeVars, storeVars, agentVars, normVars, batchVars, clanVars, cacheVars, lateVars>>
  \/ MigrationTotals /\ UNCHANGED <<deltaVars, modeVars, storeVars, agentVars, normVars, batchVars, clanVars, cacheVars, lateVars>>
  \/ IngestTotals /\ UNCHANGED <<deltaVars, modeVars, storeVars, agentVars, normVars, batchVars, clanVars, cacheVars, lateVars>>
  \/ ImportTotals /\ UNCHANGED <<deltaVars, modeVars, storeVars, agentVars, normVars, batchVars, clanVars, cacheVars, lateVars>>

SpecTotals == InitTotals /\ [][NextTotals]_vars

(***************************************************************************)
(* SpecBatch: SnapshotAgent.run on a batch of accounts, with the job       *)
(* worker's ingestion of each stored result.  The shadow takes the turns   *)
(* of the accounts that did not fail, with the same fetch outcomes and     *)
(* the same timestamps.                                                    *)
(***************************************************************************)
InitBatch ==
  /\ IdleDelta /\ IdleMode /\ IdleStore /\ IdleAgent /\ IdleNorm /\ IdleTotals /\ IdleClan /\ IdleCache /\ IdleLate
  /\ \E accounts \in Batches :
       batch = [BatchIdle EXCEPT !.pc = "loop", !.accounts = accounts]
  /\ shadow = BatchIdle.st

\* lines 95-218 for the next account of the batch
BatchTurn(outcome, advance) ==
  LET account == batch.accounts[batch.next]
      timestamp == [tick |-> batch.clock.tick + 1, second |-> batch.clock.second + advance]
      after == RunTurn(batch.st, account, outcome, timestamp)
      fails == FirstFound(_candidate_modes(CacheGet(batch.st.data, account.name),
                                           RunRequestedMode(account.mode)), outcome) = ""
  IN  /\ batch.pc = "loop"
      /\ batch.next <= Len(batch.accounts)
      /\ batch' = [batch EXCEPT !.next = @ + 1, !.clock = timestamp, !.st = after,
                                !.turn = TurnOf(batch.st, account, outcome)]
      /\ shadow' = IF fails THEN shadow
                    ELSE RunTurn(shadow, account, outcome, timestamp)

\* lines 220-221: the loop is over, the cache is persisted, results returned
BatchReturn ==
  /\ batch.pc = "loop"
  /\ batch.next > Len(batch.accounts)
  /\ batch' = [batch EXCEPT !.pc = "returned",
                            !.cacheFile = CachePersist(@, batch.st.data, batch.st.dirty)]
  /\ UNCHANGED shadow

NextBatch ==
  \/ \E outcome \in UNION { FetchKinds(p) : p \in AgentPlayers }, advance \in { 0, 1 } :
       /\ batch.next <= Len(batch.accounts)
       /\ outcome \in FetchKinds(batch.accounts[batch.next].name)
       /\ BatchTurn(outcome, advance)
       /\ UNCHANGED <<deltaVars, modeVars, storeVars, agentVars, normVars, totalVars, clanVars, cacheVars, lateVars>>
  \/ BatchReturn
       /\ UNCHANGED <<deltaVars, modeVars, storeVars, agentVars, normVars, totalVars, clanVars, cacheVars, lateVars>>

SpecBatch == InitBatch /\ [][NextBatch]_vars

(***************************************************************************)
(* SpecClan: a clan's statistics, its leaderboard fetched page by page,    *)
(* and its members' window deltas, for every clan and window bound.  The   *)
(* rows and the bound stay as they are between the calls, which read       *)
(* only and are taken in one order: the statistics, the window delta of    *)
(* each member, the leaderboard pages.                                     *)
(***************************************************************************)
InitClan ==
  /\ IdleDelta /\ IdleMode /\ IdleStore /\ IdleAgent /\ IdleNorm /\ IdleTotals /\ IdleBatch /\ IdleCache /\ IdleLate
  /\ cMembers \in Clans
  /\ cSince \in Bounds
  /\ cStats = StatsPending
  /\ cWindow = <<>>
  /\ cBoard = NoBoard

\* compute_stats(clan_id, timeframe)
ComputeStats ==
  /\ cStats = StatsPending
  /\ cStats' = compute_stats(cMembers, cSince)
  /\ UNCHANGED <<cMembers, cSince, cWindow, cBoard>>

\* _compute_window_delta for the next member
ComputeWindow ==
  /\ cStats # StatsPending
  /\ Len(cWindow) < Len(cMembers)
  /\ cWindow' = Append(cWindow, _compute_window_delta(cMembers[Len(cWindow) + 1], cSince))
  /\ UNCHANGED <<cMembers, cSince, cStats, cBoard>>

\* get_leaderboard for page 1 of a metric and page size, then for the page
\* after the last one fetched, while rows are left
GetLeaderboard(metric, page_size) ==
  LET answer == get_leaderboard(compute_stats(cMembers, cSince), metric,
                                cBoard.page + 1, page_size)
  IN  /\ Len(cWindow) = Len(cMembers)
      /\ cBoard.page = 0 \/ (metric = cBoard.metric /\ page_size = cBoard.page_size)
      /\ cBoard.page = 0 \/ Len(cBoard.rows) < cBoard.total
      /\ cBoard' = [metric |-> metric, page_size |-> page_size, page |-> cBoard.page + 1,
                    total |-> answer.total, rows |-> cBoard.rows \o answer.rows]
      /\ UNCHANGED <<cMembers, cSince, cStats, cWindow>>

NextClan ==
  \/ ComputeStats
       /\ UNCHANGED <<deltaVars, modeVars, storeVars, agentVars, normVars, totalVars, batchVars, cacheVars, lateVars>>
  \/ ComputeWindow
       /\ UNCHANGED <<deltaVars, modeVars, storeVars, agentVars, normVars, totalVars, batchVars, cacheVars, lateVars>>
  \/ \E metric \in Metrics, page_size \in PageSizes :
       GetLeaderboard(metric, page_size)
         /\ UNCHANGED <<deltaVars, modeVars, storeVars, agentVars, normVars, totalVars, batchVars, cacheVars, lateVars>>

SpecClan == InitClan /\ [][NextClan]_vars

(***************************************************************************)
(* SpecCache: one ModeCache at a time on one path: updates, persist, and  *)
(* a new ModeCache once everything updated has been persisted.             *)
(***************************************************************************)
InitCache ==
  /\ IdleDelta /\ IdleMode /\ IdleStore /\ IdleAgent
  /\ IdleNorm /\ IdleTotals /\ IdleBatch /\ IdleClan /\ IdleLate
  /\ \E file \in { NoFile, BrokenFile } :
       mc = [McIdle EXCEPT !.file = file, !.cache = NewModeCache(file), !.fresh = TRUE]

\* cache.update(player, mode)
McUpdate(player, mode) ==
  /\ mc.updates < MaxUpdates
  /\ mc' = [mc EXCEPT !.cache = update(@, player, mode, mc.updates + 1),
                      !.updates = @ + 1,
                      !.unsaved = TRUE,
                      !.fresh = FALSE,
                      !.last[player] = mode]

\* cache.persist()
McPersist ==
  /\ mc.unsaved
  /\ LET done == persist(mc.cache, mc.file)
     IN  mc' = [mc EXCEPT !.cache = done[1], !.file = done[2], !.unsaved = FALSE]

\* ModeCache(path), after a persist that followed the updates
McNew ==
  /\ ~mc.unsaved /\ ~mc.fresh
  /\ mc' = [mc EXCEPT !.cache = NewModeCache(mc.file), !.fresh = TRUE]

NextCache ==
  \/ \E player \in Players, mode \in CachedModes :
       McUpdate(player, mode)
         /\ UNCHANGED <<deltaVars, modeVars, storeVars, agentVars, normVars, totalVars, batchVars, clanVars, lateVars>>
  \/ McPersist
       /\ UNCHANGED <<deltaVars, modeVars, storeVars, agentVars, normVars, totalVars, batchVars, clanVars, lateVars>>
  \/ McNew
       /\ UNCHANGED <<deltaVars, modeVars, storeVars, agentVars, normVars, totalVars, batchVars, clanVars, lateVars>>

SpecCache == InitCache /\ [][NextCache]_vars

(***************************************************************************)
(* SpecImport: direct calls of ingest_result, then one run of              *)
(* import_snapshots, one file per step, on the database they share.        *)
(***************************************************************************)
InitImport ==
  /\ IdleDelta /\ IdleMode /\ IdleStore /\ IdleAgent
  /\ IdleNorm /\ IdleTotals /\ IdleBatch /\ IdleClan /\ IdleCache
  /\ IdleShared /\ IdleJobs /\ IdleSummary
  /\ imp \in { [ImpIdle EXCEPT !.files = root] : root \in ImportRoots }

\* ingest_result(result), from its first statement to its commit
ImpIngest(payload) ==
  /\ imp.pc = "idle" /\ imp.direct < MaxDirect
  /\ db' = ingest_result(db, payload)[1]
  /\ imp' = [imp EXCEPT !.direct = @ + 1, !.last = payload]
  /\ UNCHANGED <<lock, ing, calls>>

\* line 72: with db.get_connection() as conn
ImpOpen ==
  /\ imp.pc = "idle"
  /\ imp' = [imp EXCEPT !.pc = "loop", !.view = db, !.next = 1]
  /\ UNCHANGED storeVars

\* lines 73-187: the turn of the next file; an exception leaves the with
\* block, which rolls the connection back and re-raises
ImpFile ==
  LET turn == import_file(imp.view, imp.files[imp.next])
  IN  /\ imp.pc = "loop" /\ imp.next <= Len(imp.files)
      /\ IF turn.raised
           THEN /\ db' = Rollback(db, imp.view)
                /\ imp' = [imp EXCEPT !.pc = "raised", !.view = EmptyDb]
           ELSE /\ db' = db
                /\ imp' = [imp EXCEPT !.view = turn.view, !.next = @ + 1,
                                      !.skipped = @ + (IF turn.skipped THEN 1 ELSE 0)]
      /\ UNCHANGED <<lock, ing, calls>>

\* line 188 and connection.py line 64: the loop is over, the block commits
ImpReturn ==
  /\ imp.pc = "loop" /\ imp.next > Len(imp.files)
  /\ db' = Commit(db, imp.view)
  /\ imp' = [imp EXCEPT !.pc = "returned", !.view = EmptyDb]
  /\ UNCHANGED <<lock, ing, calls>>

NextImport ==
  \/ \E payload \in DirectPayloads :
       ImpIngest(payload)
         /\ UNCHANGED <<deltaVars, modeVars, agentVars, normVars, totalVars, batchVars, clanVars, cacheVars, sharedVars, jobVars, summaryVars>>
  \/ ImpOpen
       /\ UNCHANGED <<deltaVars, modeVars, agentVars, normVars, totalVars, batchVars, clanVars, cacheVars, sharedVars, jobVars, summaryVars>>
  \/ ImpFile
       /\ UNCHANGED <<deltaVars, modeVars, agentVars, normVars, totalVars, batchVars, clanVars, cacheVars, sharedVars, jobVars, summaryVars>>
  \/ ImpReturn
       /\ UNCHANGED <<deltaVars, modeVars, agentVars, normVars, totalVars, batchVars, clanVars, cacheVars, sharedVars, jobVars, summaryVars>>

SpecImport == InitImport /\ [][NextImport]_vars

(***************************************************************************)
(* SpecShared: two processes on one cache file.  Each makes its ModeCache  *)
(* once, then updates and persists it; a call runs from its first          *)
(* statement to its last, and the calls of the two interleave.             *)
(***************************************************************************)
InitShared ==
  /\ IdleDelta /\ IdleMode /\ IdleStore /\ IdleAgent
  /\ IdleNorm /\ IdleTotals /\ IdleBatch /\ IdleClan /\ IdleCache
  /\ IdleImport /\ IdleJobs /\ IdleSummary
  /\ \E file \in { NoFile, BrokenFile, SeedFile } : sh = [ShIdle EXCEPT !.file = file]

\* ModeCache(path)
ShNew(p) ==
  /\ ~sh.inst[p].made
  /\ sh' = [sh EXCEPT !.inst[p] = [made |-> TRUE, cache |-> NewModeCache(sh.file),
                                   base |-> sh.file, touched |-> FALSE, own |-> {}],
                      !.op = <<"new", p>>]

\* cache.update(player, mode) at the next instant of the clock
ShUpdate(p, player, mode) ==
  LET me == sh.inst[p]
      changes == ~me.cache.data[player].present \/ me.cache.data[player].mode # mode
  IN  /\ me.made /\ sh.now < MaxUpdates
      /\ sh' = [sh EXCEPT !.inst[p].cache = update(@, player, mode, sh.now + 1),
                          !.inst[p].touched = @ \/ changes,
                          !.inst[p].own = IF changes THEN @ \cup { player } ELSE @,
                          !.now = @ + 1,
                          !.op = <<"update", p>>]

\* cache.persist()
ShPersist(p) ==
  LET me == sh.inst[p]
      done == persist(me.cache, sh.file)
  IN  /\ me.made
      /\ sh' = [sh EXCEPT !.inst[p].cache = done[1],
                          !.inst[p].touched = FALSE,
                          !.file = done[2],
                          !.writers = IF me.touched /\ (@ = <<>> \/ @[Len(@)] # p)
                                        THEN Append(@, p) ELSE @,
                          !.op = <<"persist", p>>]

NextShared ==
  \/ \E p \in Procs :
       ShNew(p)
         /\ UNCHANGED <<deltaVars, modeVars, storeVars, agentVars, normVars, totalVars, batchVars, clanVars, cacheVars, importVars, jobVars, summaryVars>>
  \/ \E p \in Procs, player \in Players, mode \in CachedModes :
       ShUpdate(p, player, mode)
         /\ UNCHANGED <<deltaVars, modeVars, storeVars, agentVars, normVars, totalVars, batchVars, clanVars, cacheVars, importVars, jobVars, summaryVars>>
  \/ \E p \in Procs :
       ShPersist(p)
         /\ UNCHANGED <<deltaVars, modeVars, storeVars, agentVars, normVars, totalVars, batchVars, clanVars, cacheVars, importVars, jobVars, summaryVars>>

SpecShared == InitShared /\ [][NextShared]_vars

(***************************************************************************)
(* SpecSummary: summarize_delta on one delta.                              *)
(***************************************************************************)
InitSummary ==
  /\ IdleDelta /\ IdleMode /\ IdleStore /\ IdleAgent
  /\ IdleNorm /\ IdleTotals /\ IdleBatch /\ IdleClan /\ IdleCache
  /\ IdleImport /\ IdleShared /\ IdleJobs
  /\ \E delta \in SummaryInputs : sm = [SmIdle EXCEPT !.delta = delta]

\* summarize_delta(delta)
Summarize ==
  /\ sm.out = NoSummary
  /\ sm' = [sm EXCEPT !.out = summarize_delta(sm.delta)]

NextSummary ==
  Summarize
    /\ UNCHANGED <<deltaVars, modeVars, storeVars, agentVars, normVars, totalVars, batchVars, clanVars, cacheVars, importVars, sharedVars, jobVars>>

SpecSummary == InitSummary /\ [][NextSummary]_vars

(***************************************************************************)
(* SpecJobs: jobs are created, and two callers run the worker's loop:      *)
(* fetch_next_pending, then mark_success or mark_error.  One SQL statement *)
(* or one commit per step.  A SELECT outside a transaction reads the       *)
(* committed table; an UPDATE opens a transaction and waits for the write  *)
(* lock; leaving the connection block commits and frees the lock.          *)
(***************************************************************************)
InitJobs ==
  /\ IdleDelta /\ IdleMode /\ IdleStore /\ IdleAgent
  /\ IdleNorm /\ IdleTotals /\ IdleBatch /\ IdleClan /\ IdleCache
  /\ IdleImport /\ IdleShared /\ IdleSummary
  /\ jobs = NoJobs
  /\ jw = [w \in Callers |-> CallerIdle]

\* create_job, lines 17-27: the INSERT and its commit
CreateJob ==
  /\ Len(jobs.rows) < MaxJobs /\ jobs.lock = 0
  /\ jobs' = [jobs EXCEPT !.rows = Append(@, Job("pending"))]
  /\ UNCHANGED jw

\* fetch_next_pending, lines 47-57: the SELECT; without a row the call
\* returns None
FetchSelect(w) ==
  /\ jw[w].pc = "idle"
  /\ jw' = [jw EXCEPT ![w] = IF NextPending(jobs.rows) = 0 THEN CallerIdle
                              ELSE [pc |-> "selected", job |-> NextPending(jobs.rows)]]
  /\ UNCHANGED jobs

\* lines 64-67: the UPDATE of the row selected, under the write lock
FetchUpdate(w) ==
  /\ jw[w].pc = "selected" /\ jobs.lock = 0
  /\ jobs' = [jobs EXCEPT !.lock = w]
  /\ jw' = [jw EXCEPT ![w].pc = "updated"]

\* line 68 and connection.py line 64: the block commits, the job is returned
FetchReturn(w) ==
  /\ jw[w].pc = "updated"
  /\ jobs' = [jobs EXCEPT !.lock = 0,
                          !.rows[jw[w].job].status = "running",
                          !.rows[jw[w].job].returned_to = Append(@, w)]
  /\ jw' = [jw EXCEPT ![w].pc = "running"]

\* job_worker.py lines 59-70 with mark_success / mark_error, lines 70-94
MarkDone(w, status) ==
  /\ jw[w].pc = "running" /\ jobs.lock = 0
  /\ jobs' = [jobs EXCEPT !.rows[jw[w].job].status = status,
                          !.rows[jw[w].job].marked = TRUE]
  /\ jw' = [jw EXCEPT ![w] = CallerIdle]

NextJobs ==
  \/ CreateJob
       /\ UNCHANGED <<deltaVars, modeVars, storeVars, agentVars, normVars, totalVars, batchVars, clanVars, cacheVars, importVars, sharedVars, summaryVars>>
  \/ \E w \in Callers :
       FetchSelect(w)
         /\ UNCHANGED <<deltaVars, modeVars, storeVars, agentVars, normVars, totalVars, batchVars, clanVars, cacheVars, importVars, sharedVars, summaryVars>>
  \/ \E w \in Callers :
       FetchUpdate(w)
         /\ UNCHANGED <<deltaVars, modeVars, storeVars, agentVars, normVars, totalVars, batchVars, clanVars, cacheVars, importVars, sharedVars, summaryVars>>
  \/ \E w \in Callers :
       FetchReturn(w)
         /\ UNCHANGED <<deltaVars, modeVars, storeVars, agentVars, normVars, totalVars, batchVars, clanVars, cacheVars, importVars, sharedVars, summaryVars>>
  \/ \E w \in Callers, status \in { "success", "error" } :
       MarkDone(w, status)
         /\ UNCHANGED <<deltaVars, modeVars, storeVars, agentVars, normVars, totalVars, batchVars, clanVars, cacheVars, importVars, sharedVars, summaryVars>>

SpecJobs == InitJobs /\ [][NextJobs]_vars

(***************************************************************************)
(* Spec: ingest_result, called by concurrent workers, one SQL statement    *)
(* per step.  Each call opens its own connection; SQLite in WAL mode lets  *)
(* readers see the committed database only and admits one writer at a      *)
(* time: a second writer waits for the lock (its busy timeout is not       *)
(* modelled: transactions are short).                                      *)
(***************************************************************************)
Init == IdleDelta /\ IdleMode /\ IdleStore /\ IdleAgent /\ IdleAux

\* the call so far raised: get_connection rolls back and re-raises
IngRaise(w, error) ==
  /\ db' = Rollback(db, ing[w].view)
  /\ lock' = 0
  /\ ing' = [ing EXCEPT ![w] = [@ EXCEPT !.pc = "done", !.view = EmptyDb,
                                         !.result = Raised(error)]]

\* lines 152-180: read the payload, open the connection, look for the id;
\* a stored id is returned at once and the block commits nothing
IngCall(w, payload) ==
  /\ ing[w].pc = "idle"
  /\ calls < MaxIngests
  /\ calls' = calls + 1
  /\ LET existing == ExistingId(db, payload.snapshot_id)
         call == [IngIdle EXCEPT !.payload = payload]
     IN  ing' = [ing EXCEPT ![w] =
                   IF existing # 0
                     THEN [call EXCEPT !.pc = "done", !.result = Skipped(existing)]
                     ELSE [call EXCEPT !.pc = "account"]]
  /\ UNCHANGED <<db, lock>>

\* line 37: _ensure_account's SELECT, still outside any transaction
IngSelectAccount(w) ==
  /\ ing[w].pc = "account"
  /\ ing' = [ing EXCEPT ![w] = [@ EXCEPT !.pc = "ensure",
                                         !.account = AccountId(db, ing[w].payload.player)]]
  /\ UNCHANGED <<db, lock, calls>>

\* lines 38-45: the first write begins the transaction on the database as
\* committed by then and takes the write lock; the INSERT of a name another
\* call has stored meanwhile breaks accounts.name UNIQUE
IngEnsureAccount(w) ==
  /\ ing[w].pc = "ensure"
  /\ lock = 0
  /\ LET p == ing[w].payload
         ensured == _ensure_account(db, ing[w].account, p.player, p.resolved_mode)
     IN  IF ing[w].account = 0 /\ AccountNameTaken(db, p.player)
           THEN /\ ing' = [ing EXCEPT ![w] = [@ EXCEPT !.pc = "done",
                                                       !.result = Raised("IntegrityError")]]
                /\ UNCHANGED <<db, lock>>
           ELSE /\ ing' = [ing EXCEPT ![w] = [@ EXCEPT !.pc = "snapshot",
                                                       !.view = ensured[1],
                                                       !.account_id = ensured[2]]]
                /\ lock' = w
                /\ UNCHANGED db
  /\ UNCHANGED calls

\* lines 184-205: a stored snapshot_id breaks snapshots.snapshot_id UNIQUE
IngInsertSnapshot(w) ==
  /\ ing[w].pc = "snapshot"
  /\ LET p == ing[w].payload
         inserted == InsertSnapshot(ing[w].view, p, ing[w].account_id)
     IN  IF SnapshotIdTaken(ing[w].view, p.snapshot_id)
           THEN IngRaise(w, "IntegrityError")
           ELSE /\ ing' = [ing EXCEPT ![w] = [@ EXCEPT !.pc = "skills",
                                                       !.view = inserted[1],
                                                       !.snapshot_db_id = inserted[2]]]
                /\ UNCHANGED <<db, lock>>
  /\ UNCHANGED calls

\* line 207
IngInsertSkills(w) ==
  /\ ing[w].pc = "skills"
  /\ ing' = [ing EXCEPT ![w] =
               [@ EXCEPT !.pc = "activities",
                         !.view = _insert_skills(ing[w].view, ing[w].snapshot_db_id,
                                                 ing[w].payload.data.skills)]]
  /\ UNCHANGED <<db, lock, calls>>

\* line 208
IngInsertActivities(w) ==
  /\ ing[w].pc = "activities"
  /\ ing' = [ing EXCEPT ![w] =
               [@ EXCEPT !.pc = "delta",
                         !.view = _insert_activities(ing[w].view, ing[w].snapshot_db_id,
                                                     ing[w].payload.data.activities)]]
  /\ UNCHANGED <<db, lock, calls>>

\* lines 209-216: the delta, its summary and the dict to return
IngInsertDelta(w) ==
  /\ ing[w].pc = "delta"
  /\ LET p == ing[w].payload
         done == _insert_delta(ing[w].view, ing[w].account_id, ing[w].snapshot_db_id,
                               p.fetched_at, p.delta, p.data)
     IN  ing' = [ing EXCEPT ![w] =
                   [@ EXCEPT !.pc = "commit", !.view = done[1],
                             !.result = Stored(ing[w].snapshot_db_id, done[2],
                                               IngestSummary(done[2]))]]
  /\ UNCHANGED <<db, lock, calls>>

\* the block is left: get_connection commits and closes, the dict is returned
IngCommit(w) ==
  /\ ing[w].pc = "commit"
  /\ db' = Commit(db, ing[w].view)
  /\ lock' = 0
  /\ ing' = [ing EXCEPT ![w] = [@ EXCEPT !.pc = "done", !.view = EmptyDb]]
  /\ UNCHANGED calls

\* a statement or the commit of the open transaction raises (disk full, I/O
\* error, a NOT NULL column): rollback
IngFault(w) ==
  /\ lock = w
  /\ IngRaise(w, "fault")
  /\ UNCHANGED calls

\* the caller has the outcome
IngReturn(w) ==
  /\ ing[w].pc = "done"
  /\ ing' = [ing EXCEPT ![w] = IngIdle]
  /\ UNCHANGED <<db, lock, calls>>

Next ==
  \/ \E w \in Workers, payload \in IngestPayloads :
       IngCall(w, payload) /\ UNCHANGED <<deltaVars, modeVars, agentVars, auxVars>>
  \/ \E w \in Workers : IngSelectAccount(w) /\ UNCHANGED <<deltaVars, modeVars, agentVars, auxVars>>
  \/ \E w \in Workers : IngEnsureAccount(w) /\ UNCHANGED <<deltaVars, modeVars, agentVars, auxVars>>
  \/ \E w \in Workers : IngInsertSnapshot(w) /\ UNCHANGED <<deltaVars, modeVars, agentVars, auxVars>>
  \/ \E w \in Workers : IngInsertSkills(w) /\ UNCHANGED <<deltaVars, modeVars, agentVars, auxVars>>
  \/ \E w \in Workers : IngInsertActivities(w) /\ UNCHANGED <<deltaVars, modeVars, agentVars, auxVars>>
  \/ \E w \in Workers : IngInsertDelta(w) /\ UNCHANGED <<deltaVars, modeVars, agentVars, auxVars>>
  \/ \E w \in Workers : IngCommit(w) /\ UNCHANGED <<deltaVars, modeVars, agentVars, auxVars>>
  \/ \E w \in Workers : IngFault(w) /\ UNCHANGED <<deltaVars, modeVars, agentVars, auxVars>>
  \/ \E w \in Workers : IngReturn(w) /\ UNCHANGED <<deltaVars, modeVars, agentVars, auxVars>>

Spec == Init /\ [][Next]_vars

(***************************************************************************)
(* SpecAgent: SnapshotAgent.run for one account at a time, and the job     *)
(* worker handing the latest result to ingest_result (the command line     *)
(* runs the agent without ingesting).  One thread: ingest_result runs      *)
(* from start to commit in a step.                                         *)
(***************************************************************************)
InitAgent == IdleDelta /\ IdleMode /\ IdleStore /\ IdleAgent /\ IdleAux

\* run, lines 95-221 for one account.  `resolved_mode` is the first candidate
\* whose fetch answered ("" when none did: the candidates before it raised),
\* `played` the hours of play behind the data, `advance` the seconds gone by
\* since the last run.
AgentRun(player, raw_mode, resolved_mode, played, advance) ==
  LET requested_mode == RunRequestedMode(raw_mode)
      candidates == _candidate_modes(CacheGet(cacheFile, player), requested_mode)
      timestamp == [tick |-> clock.tick + 1, second |-> clock.second + advance]
      safe_player == SafePlayer(player)
      directory == files[safe_player]
      snapshot_path == timestamp.second
      normalized_data == normalize_snapshot_data(RawAt(played))
      previous_path == _previous_snapshot_path(directory, snapshot_path)
      delta == IF previous_path # 0
                 THEN SomeDelta(compute_snapshot_delta(
                        LoadSnapshot(directory, previous_path).data, normalized_data))
                 ELSE NoneDelta
      delta_summary == IF previous_path # 0 THEN summarize_delta(delta.value)
                       ELSE Literal("Initial snapshot.")
      payload == Payload(player, timestamp.tick, requested_mode, resolved_mode,
                         normalized_data, delta)
      upd == CacheUpdate(cacheFile, FALSE, player, resolved_mode)
  IN  /\ clock.tick < MaxRuns
      /\ resolved_mode # "" => resolved_mode \in Range(candidates) \cap Habitat(player)
      /\ clock' = timestamp
      /\ IF resolved_mode = ""
           THEN /\ res' = RunFailed(player)
                /\ UNCHANGED <<files, cacheFile>>
           ELSE /\ files' = [files EXCEPT ![safe_player] =
                               WriteFile(directory, snapshot_path, payload)]
                /\ res' = RunStored(player, snapshot_path, payload, delta_summary)
                /\ cacheFile' = CachePersist(cacheFile, upd[1], upd[2])
      /\ UNCHANGED <<dm, storeVars>>

\* job_worker.py lines 126-128: the worker ingests the result of the run, once
AgentIngest ==
  /\ res.success
  /\ ing[1].payload # res.payload
  /\ LET ingest_info == ingest_result(db, res.payload)
     IN  /\ db' = ingest_info[1]
         /\ ing' = [ing EXCEPT ![1] = [IngIdle EXCEPT !.pc = "done",
                                                     !.payload = res.payload,
                                                     !.result = ingest_info[2]]]
  /\ calls' = calls + 1
  /\ UNCHANGED <<lock, agentVars, modeVars>>

NextAgent ==
  \/ \E player \in AgentPlayers, raw_mode \in RunModes, played \in Hours, advance \in { 0, 1 } :
       \E resolved_mode \in Habitat(player) \cup { "" } :
         AgentRun(player, raw_mode, resolved_mode, played, advance)
           /\ UNCHANGED <<deltaVars, auxVars>>
  \/ AgentIngest /\ UNCHANGED <<deltaVars, auxVars>>

SpecAgent == InitAgent /\ [][NextAgent]_vars

(***************************************************************************)
(* Properties of the delta engine.                                         *)
(***************************************************************************)
\* the value a Python dict built from `entries` holds for name n: the last
\* entry of that name
LastNamed(entries, n) ==
  entries[CHOOSE i \in Idx(entries) :
            /\ entries[i].name = n
            /\ \A j \in Idx(entries) : entries[j].name = n => j <= i]
HasName(entries, n) == \E i \in Idx(entries) : entries[i].name = n
NamesOf(entries) == { entries[i].name : i \in Idx(entries) } \ {""}
\* a field's numeric value, null and non-numbers counting 0
NumOr0(v) == IF v[1] = "num" THEN v[2] ELSE 0
\* the field f of the entry named n, 0 when there is no such entry
FieldOr0(entries, n, f) ==
  IF HasName(entries, n) THEN NumOr0(LastNamed(entries, n)[f]) ELSE 0
\* current minus previous of a field of the entry named n
XpDelta(n) == FieldOr0(dCurr.skills, n, "xp") - FieldOr0(dPrev.skills, n, "xp")
LevelDelta(n) == FieldOr0(dCurr.skills, n, "level") - FieldOr0(dPrev.skills, n, "level")
ScoreDelta(n) ==
  FieldOr0(dCurr.activities, n, "score") - FieldOr0(dPrev.activities, n, "score")
Occurrences(deltas, n) == Cardinality({ i \in Idx(deltas) : deltas[i].name = n })

RECURSIVE SumOver(_, _)
SumOver(f, S) ==
  IF S = {} THEN 0
  ELSE LET i == CHOOSE j \in S : TRUE IN f[i] + SumOver(f, S \ {i})
\* the xp of all entries of a skill list, every entry counted
FullXp(skills) == SumOver([i \in Idx(skills) |-> NumOr0(skills[i].xp)], Idx(skills))

\* C5 (zero law): comparing a snapshot with itself gives no skill delta, no
\* activity delta and a total xp delta of 0, also when the snapshot has null
\* fields, nameless entries or repeated names.
C5_ZeroLaw ==
  (dPc = "done" /\ dPrev = dCurr) =>
    /\ dOut.skill_deltas = <<>>
    /\ dOut.activity_deltas = <<>>
    /\ dOut.total_xp_delta = 0

\* a snapshot compared with itself that has a repeated name, a nameless entry
\* and a null xp
C5_Witness ==
  /\ dPc = "done" /\ dPrev = dCurr
  /\ Len(dCurr.skills) = MaxLen
  /\ \E i, j \in Idx(dCurr.skills) : i # j /\ dCurr.skills[i].name = dCurr.skills[j].name
                                       /\ dCurr.skills[i].xp # dCurr.skills[j].xp

\* C6 (filtering and order): skill_deltas holds exactly one entry for each
\* named skill of the current snapshot whose xp or level rose (a missing or
\* null previous value counting 0), carries that skill's differences, holds
\* nothing for a skill that is only in the previous snapshot, and is sorted by
\* xp_delta descending; activity_deltas likewise holds exactly the current
\* activities whose score rose, sorted by score_delta descending.
C6_FilterAndOrder ==
  dPc = "done" =>
    LET sd == dOut.skill_deltas
        ad == dOut.activity_deltas
    IN  /\ \A i \in Idx(sd) :
              /\ sd[i].name \in NamesOf(dCurr.skills)
              /\ sd[i].xp_delta = XpDelta(sd[i].name)
              /\ sd[i].level_delta = LevelDelta(sd[i].name)
        /\ \A n \in NamesOf(dCurr.skills) :
              Occurrences(sd, n) = IF XpDelta(n) > 0 \/ LevelDelta(n) > 0 THEN 1 ELSE 0
        /\ \A i, j \in Idx(sd) : i < j => sd[i].xp_delta >= sd[j].xp_delta
        /\ \A i \in Idx(ad) :
              /\ ad[i].name \in NamesOf(dCurr.activities)
              /\ ad[i].score_delta = ScoreDelta(ad[i].name)
        /\ \A n \in NamesOf(dCurr.activities) :
              Occurrences(ad, n) = IF ScoreDelta(n) > 0 THEN 1 ELSE 0
        /\ \A i, j \in Idx(ad) : i < j => ad[i].score_delta >= ad[j].score_delta

\* two skills retained, the later one of the current snapshot with the larger
\* gain, the other one retained for its level although its xp fell
C6_Witness ==
  /\ dPc = "done"
  /\ Len(dOut.skill_deltas) = 2
  /\ dOut.skill_deltas[1].xp_delta > 0
  /\ dOut.skill_deltas[2].xp_delta < 0
  /\ dOut.skill_deltas[1].name = dCurr.skills[Len(dCurr.skills)].name

\* C7 (total): total_xp_delta is the xp of all skill entries of the current
\* snapshot minus the xp of all skill entries of the previous one, null and
\* non-numeric xp counting 0; it runs over the full lists.
C7_TotalOverFullLists ==
  dPc = "done" =>
    dOut.total_xp_delta = FullXp(dCurr.skills) - FullXp(dPrev.skills)

\* a negative total that differs from the sum of the retained skill deltas,
\* with a nameless entry and a non-numeric xp among the inputs
C7_Witness ==
  /\ dPc = "done"
  /\ dOut.total_xp_delta < 0
  /\ dOut.skill_deltas # <<>>
  /\ dOut.total_xp_delta #
       SumOver([i \in Idx(dOut.skill_deltas) |-> dOut.skill_deltas[i].xp_delta],
               Idx(dOut.skill_deltas))
  /\ \E i \in Idx(dPrev.skills) : dPrev.skills[i].name = ""
  /\ \E i \in Idx(dCurr.skills) : dCurr.skills[i].xp = Str

(***************************************************************************)
(* Properties of normalize_snapshot_data.                                  *)
(***************************************************************************)
Negative(v) == IsNum(v) /\ v[2] < 0
SkillKeys == { "rank", "level", "xp" }
ActivityKeys == { "rank", "score" }

\* the entry `out` is the entry `in` with the negative numbers under `keys`
\* made null and everything else as it was
NormalizedEntry(in, out, keys) ==
  /\ DOMAIN out = DOMAIN in
  /\ \A k \in DOMAIN in :
       /\ (k \in keys /\ Negative(in[k])) => out[k] = None
       /\ k \in keys => ~Negative(out[k])
       /\ ~(k \in keys /\ Negative(in[k])) => out[k] = in[k]

\* C12 (normalization law): in the returned data every skill's rank, level
\* and xp and every activity's rank and score that was a negative number in
\* the input is null, none of these fields is negative, and every other
\* field of every entry has its input value.
C12_NormalizationLaw ==
  nPc = "returned" =>
    /\ Len(heap[nOut].skills) = Len(nArg0.skills)
    /\ Len(heap[nOut].activities) = Len(nArg0.activities)
    /\ \A i \in Idx(nArg0.skills) :
         NormalizedEntry(nArg0.skills[i], heap[nOut].skills[i], SkillKeys)
    /\ \A i \in Idx(nArg0.activities) :
         NormalizedEntry(nArg0.activities[i], heap[nOut].activities[i], ActivityKeys)

\* returned: a skill lost a negative rank and kept a negative score, an
\* activity lost a negative score and kept a negative xp
C12_Witness ==
  /\ nPc = "returned"
  /\ \E i \in Idx(nArg0.skills) :
       /\ "score" \in DOMAIN nArg0.skills[i]
       /\ Negative(nArg0.skills[i].xp) /\ heap[nOut].skills[i].xp = None
       /\ Negative(heap[nOut].skills[i].score)
  /\ \E i \in Idx(nArg0.skills) : Negative(nArg0.skills[i].rank)
  /\ \E i \in Idx(nArg0.activities) :
       /\ Negative(nArg0.activities[i].score) /\ heap[nOut].activities[i].score = None

\* C13 (argument untouched): from the call to the return of
\* normalize_snapshot_data the raw payload, every nested skill and activity
\* entry included, has the value it had at the call.
C13_ArgumentUnchanged == nPc # "idle" => heap[RAW] = nArg0

\* returned with data that differs from the argument, which is as it was
C13_Witness ==
  /\ nPc = "returned" /\ nOut # RAW
  /\ heap[nOut] # heap[RAW]
  /\ heap[RAW] = nArg0
  /\ \E i \in Idx(nArg0.skills) : Negative(heap[RAW].skills[i].rank)

(***************************************************************************)
(* Properties of a batch.                                                  *)
(***************************************************************************)
\* the entries of a list of results that are successes, in order
RECURSIVE Successes(_)
Successes(results) ==
  IF results = <<>> THEN <<>>
  ELSE LET rest == Successes(SubSeq(results, 1, Len(results) - 1))
           last == results[Len(results)]
       IN  IF last.result.success THEN Append(rest, last) ELSE rest

\* C16 (batch independence): run has one result per account taken so far,
\* in the order of the accounts, and one per account of the batch when it
\* returns; the results of the accounts that did not fail, the snapshot
\* files and the stored rows are those of the same run on the batch without
\* the failing accounts.
C16_BatchIndependence ==
  /\ Len(batch.st.results) = batch.next - 1
  /\ \A i \in Idx(batch.st.results) :
       batch.st.results[i].result.player = batch.accounts[i].name
  /\ batch.pc = "returned" => Len(batch.st.results) = Len(batch.accounts)
  /\ Successes(batch.st.results) = shadow.results
  /\ batch.st.files = shadow.files
  /\ batch.st.db = shadow.db

\* a batch returned in which the first account failed on a transport error
\* and the second was stored and ingested
C16_Witness ==
  /\ batch.pc = "returned"
  /\ Len(batch.accounts) = 2
  /\ ~batch.st.results[1].result.success
  /\ batch.st.results[1].message = Literal("transport error")
  /\ batch.st.results[2].result.success
  /\ batch.st.db.snapshots # <<>>
  /\ batch.st.files # NoFiles

\* the latest turn of the batch and its result
TurnTaken == batch.turn # NoTurn
TurnResult == batch.st.results[Len(batch.st.results)]

\* C25 (the ingestion path resolves modes like the resolver): the
\* resolved_mode run records for a snapshot is the mode detect_mode reports
\* for the same player, cache contents and fetch outcomes.
C25_ResolvesLikeResolver ==
  (TurnTaken /\ TurnResult.result.success) =>
    /\ batch.turn.detect.status = "found"
    /\ TurnResult.result.payload.resolved_mode = batch.turn.detect.mode

\* C26 (transport errors during ingestion are surfaced): when the fetch of a
\* candidate mode fails with a transport error, it is the last fetch of the
\* account's turn, and the account's result is a failure with that error as
\* its message.
C26_TransportErrorSurfaced ==
  (TurnTaken /\ batch.turn.erred # "") =>
    /\ batch.turn.fetched[Len(batch.turn.fetched)] = batch.turn.erred
    /\ ~TurnResult.result.success
    /\ TurnResult.message = Literal("transport error")

(***************************************************************************)
(* Properties of ModeCache.                                               *)
(***************************************************************************)
\* C20 (round trip): a ModeCache made on the path after updates and a
\* persist gives every player the mode of its latest update, and None (the
\* empty string here) to a player never updated.
C20_ModeCacheRoundTrip ==
  mc.fresh =>
    \A player \in Players :
      get(mc.cache, player) = mc.last[player]

\* a new cache read back a mode that replaced an earlier one, and has no
\* record for the other player
C20_Witness ==
  /\ mc.fresh /\ mc.updates >= 2
  /\ mc.cache.data["p1"].present /\ mc.cache.data["p1"].updated_at = 2
  /\ mc.cache.data["p1"].mode = "main"
  /\ ~mc.cache.data["p2"].present

(***************************************************************************)
(* Properties of the clan statistics.                                     *)
(***************************************************************************)
\* the rows of member a at or after the bound, the first and the last of
\* them in time, and the members that have any
InWindow(a) ==
  { i \in Idx(cMembers[a]) : cSince = 0 \/ cMembers[a][i].fetched_at >= cSince }
Counted == { a \in Idx(cMembers) : InWindow(a) # {} }
Earliest(a) ==
  cMembers[a][CHOOSE i \in InWindow(a) :
                \A j \in InWindow(a) : cMembers[a][i].fetched_at <= cMembers[a][j].fetched_at]
Latest(a) ==
  cMembers[a][CHOOSE i \in InWindow(a) :
                \A j \in InWindow(a) : cMembers[a][j].fetched_at <= cMembers[a][i].fetched_at]
ZeroIfNull(v) == IF v[1] = "num" THEN v[2] ELSE 0

\* C17 (single-snapshot window): for a member with exactly one snapshot at
\* or after the window bound the window delta exists and has xp delta 0 and
\* no skill or activity deltas, and the member's leaderboard row has xp
\* gain 0 and level gain 0; a clan whose members all have at most one such
\* snapshot has no xp gain, no level gain, no skill and no activity gains.
C17_SingleSnapshotWindow ==
  /\ \A a \in Idx(cWindow) :
       Cardinality(InWindow(a)) = 1 =>
         /\ cWindow[a].some
         /\ cWindow[a].total_xp_delta = 0
         /\ cWindow[a].skill_deltas = <<>>
         /\ cWindow[a].activity_deltas = <<>>
  /\ cStats # StatsPending =>
       /\ \A a \in Idx(cMembers) :
            Cardinality(InWindow(a)) = 1 =>
              \E i \in Idx(cStats.leaderboard) :
                /\ cStats.leaderboard[i].name = a
                /\ cStats.leaderboard[i].xp_gain = 0
                /\ cStats.leaderboard[i].level_gain = 0
       /\ (\A a \in Idx(cMembers) : Cardinality(InWindow(a)) <= 1) =>
            /\ cStats.totals.xp_gain = 0 /\ cStats.totals.level_gain = 0
            /\ cStats.top_skills = <<>> /\ cStats.top_activities = <<>>
            /\ cStats.activities = [bosses |-> 0, clues |-> 0]

\* a member with two snapshots of which the bound leaves one, next to a
\* member with gains in the window
C17_Witness ==
  /\ cStats # StatsPending /\ Len(cWindow) = Len(cMembers)
  /\ \E a \in Idx(cMembers) :
       /\ Len(cMembers[a]) = 2 /\ Cardinality(InWindow(a)) = 1
       /\ cMembers[a][1].total_xp # cMembers[a][2].total_xp
       /\ cWindow[a].total_xp_delta = 0
  /\ \E a \in Idx(cMembers) : Len(cMembers[a]) = 1 /\ Cardinality(InWindow(a)) = 1
  /\ cSince = 2

\* the pages fetched so far hold no member twice, hold rows of the
\* statistics, and once no page is left hold every member with a snapshot
\* in the window
PagesComplete ==
  /\ \A i, j \in Idx(cBoard.rows) : i # j => cBoard.rows[i].name # cBoard.rows[j].name
  /\ \A i \in Idx(cBoard.rows) :
       /\ cBoard.rows[i].name \in Counted
       /\ cBoard.rows[i].xp_gain = ZeroIfNull(Latest(cBoard.rows[i].name).total_xp)
                                     - ZeroIfNull(Earliest(cBoard.rows[i].name).total_xp)
  /\ cBoard.page >= 1 => cBoard.total = Cardinality(Counted)
  /\ Len(cBoard.rows) <= cBoard.total
  /\ cBoard.page >= 1 =>
       Len(cBoard.rows) = (IF cBoard.page * (IF cBoard.page_size < 1 THEN 1 ELSE cBoard.page_size)
                                < cBoard.total
                             THEN cBoard.page * (IF cBoard.page_size < 1 THEN 1 ELSE cBoard.page_size)
                             ELSE cBoard.total)

\* the metric of a row
MetricOf(row) == IF cBoard.metric = "levels" THEN row.level_gain ELSE row.xp_gain

C19_FallbackDisplay ==
  (/\ cStats # StatsPending
   /\ \A a \in Counted : \A k \in Idx(Latest(a).activities) :
        ZeroIfNull(Latest(a).activities[k].score)
          <= ZeroIfNull(Earliest(a).activities[k].score))
  => \A a \in Counted : \A k \in Idx(Latest(a).activities) :
       ZeroIfNull(Latest(a).activities[k].score) > 0 =>
         \E i \in Idx(cStats.top_activities) :
           /\ cStats.top_activities[i].name = Latest(a).activities[k].name
           /\ cStats.top_activities[i].total >= ZeroIfNull(Latest(a).activities[k].score)

\* the row of member a in the statistics' leaderboard
StatsRow(a) ==
  cStats.leaderboard[CHOOSE i \in Idx(cStats.leaderboard) : cStats.leaderboard[i].name = a]
\* latest minus baseline, null as 0
Gain(latest, baseline) == ZeroIfNull(latest) - ZeroIfNull(baseline)

\* C29 (window gains use the endpoints only): the window delta of an account
\* is that of its earliest and its latest snapshot at or after the bound
\* (all its snapshots without a bound), entry by entry, and none when it has
\* no such snapshot; the member's xp gain in the clan statistics is that of
\* the same two snapshots.  No snapshot between the two has a part in it.
C29_EndpointsOnly ==
  /\ \A a \in Idx(cWindow) :
       IF InWindow(a) = {} THEN ~cWindow[a].some
       ELSE LET base == Earliest(a)
                last == Latest(a)
                w == cWindow[a]
            IN  /\ w.some
                /\ w.previous_snapshot_id = base.id
                /\ w.current_snapshot_id = last.id
                /\ w.total_xp_delta = Gain(last.total_xp, base.total_xp)
                /\ base.id # last.id =>
                     /\ Len(w.skill_deltas) = Len(last.skills)
                     /\ \A k \in Idx(last.skills) :
                          w.skill_deltas[k] =
                            [name |-> last.skills[k].name,
                             xp_delta |-> Gain(last.skills[k].xp, base.skills[k].xp),
                             level_delta |-> Gain(last.skills[k].level, base.skills[k].level)]
                     /\ Len(w.activity_deltas) = Len(last.activities)
                     /\ \A k \in Idx(last.activities) :
                          w.activity_deltas[k] =
                            [name |-> last.activities[k].name,
                             score_delta |-> Gain(last.activities[k].score,
                                                  base.activities[k].score)]
  /\ cStats # StatsPending =>
       \A a \in Counted :
         \E i \in Idx(cStats.leaderboard) :
           /\ cStats.leaderboard[i].name = a
           /\ cStats.leaderboard[i].xp_gain
                = Gain(Latest(a).total_xp, Earliest(a).total_xp)

\* a member with three snapshots in the window, the first of them exactly at
\* the bound, the second with values of its own: the gains are those of the
\* first and the third
C29_Witness ==
  /\ cStats # StatsPending /\ cSince = 1
  /\ \E a \in Idx(cWindow) :
       /\ Cardinality(InWindow(a)) = 3
       /\ Earliest(a).fetched_at = cSince
       /\ cMembers[a][2].total_xp = Num(15)
       /\ cMembers[a][2].activities[1].score = Num(9)
       /\ cWindow[a].total_xp_delta = 10
       /\ cWindow[a].activity_deltas[1].score_delta = 5
       /\ StatsRow(a).xp_gain = 10

\* C30 (member and group gains): for each member with a snapshot in the
\* window the leaderboard row has xp_gain latest.total_xp minus
\* baseline.total_xp and level_gain latest.total_level minus
\* baseline.total_level; the group totals xp_gain and level_gain are the sums
\* of these over the members.
C30_MemberAndGroupGains ==
  cStats # StatsPending =>
    /\ \A a \in Counted :
         /\ StatsRow(a).xp_gain = Gain(Latest(a).total_xp, Earliest(a).total_xp)
         /\ StatsRow(a).level_gain = Gain(Latest(a).total_level, Earliest(a).total_level)
    /\ cStats.totals.xp_gain =
         SumOver([a \in Counted |-> Gain(Latest(a).total_xp, Earliest(a).total_xp)], Counted)
    /\ cStats.totals.level_gain =
         SumOver([a \in Counted |-> Gain(Latest(a).total_level, Earliest(a).total_level)],
                 Counted)

\* the value a snapshot holds under a name in a list of rows, null as 0 and
\* 0 when it has no such row, and the positive part of a member's change
HeldValue(rows, name, field) ==
  IF \E k \in Idx(rows) : rows[k].name = name
    THEN ZeroIfNull(rows[CHOOSE k \in Idx(rows) :
                           rows[k].name = name
                           /\ \A l \in Idx(rows) : rows[l].name = name => l <= k][field])
    ELSE 0
SkillChange(a, name) ==
  HeldValue(Latest(a).skills, name, "xp") - HeldValue(Earliest(a).skills, name, "xp")
ActivityChange(a, name) ==
  HeldValue(Latest(a).activities, name, "score")
    - HeldValue(Earliest(a).activities, name, "score")
PositivePart(n) == IF n > 0 THEN n ELSE 0
SkillNamesHeld == { Latest(a).skills[k].name : a \in Counted, k \in 1..2 }
ActivityNamesHeld == { Latest(a).activities[k].name : a \in Counted, k \in 1..1 }
SkillTotal(name) ==
  SumOver([a \in Counted |-> PositivePart(SkillChange(a, name))], Counted)
ActivityTotal(name) ==
  SumOver([a \in Counted |-> PositivePart(ActivityChange(a, name))], Counted)

\* C31 (positive-only aggregates): the group's total of a skill is the sum
\* over the members of max(0, latest xp - baseline xp) of that skill, and the
\* group's total of an activity is the sum over the members of
\* max(0, latest score - baseline score); a name is listed exactly when that
\* sum is positive, so a member's negative change reduces no total.
C31_PositiveOnlyTotals ==
  cStats # StatsPending =>
    /\ \A name \in SkillNamesHeld :
         IF SkillTotal(name) > 0
           THEN \E i \in Idx(cStats.top_skills) :
                  /\ cStats.top_skills[i].name = name
                  /\ cStats.top_skills[i].total = SkillTotal(name)
           ELSE \A i \in Idx(cStats.top_skills) : cStats.top_skills[i].name # name
    /\ \A i \in Idx(cStats.top_skills) : cStats.top_skills[i].name \in SkillNamesHeld
    /\ \A name \in ActivityNamesHeld :
         IF ActivityTotal(name) > 0
           THEN \E i \in Idx(cStats.top_activities) :
                  /\ cStats.top_activities[i].name = name
                  /\ cStats.top_activities[i].total = ActivityTotal(name)
           ELSE \A i \in Idx(cStats.top_activities) : cStats.top_activities[i].name # name
    /\ \A i \in Idx(cStats.top_activities) :
         cStats.top_activities[i].name \in ActivityNamesHeld
    /\ cStats.activities.bosses = SumOver([name \in ActivityNamesHeld |-> ActivityTotal(name)],
                                         ActivityNamesHeld)

\* one member lost xp and score in the window, another gained both: the
\* totals are the gains of the second
C31_Witness ==
  /\ cStats # StatsPending
  /\ \E a, b \in Counted :
       /\ SkillChange(a, "Attack") < 0 /\ ActivityChange(a, "Zulrah") < 0
       /\ SkillChange(b, "Attack") > 0 /\ ActivityChange(b, "Zulrah") > 0
       /\ \E i \in Idx(cStats.top_skills) :
            /\ cStats.top_skills[i].name = "Attack"
            /\ cStats.top_skills[i].total >= SkillChange(b, "Attack")
       /\ \E i \in Idx(cStats.top_activities) :
            cStats.top_activities[i].total >= ActivityChange(b, "Zulrah")

\* the members of the highest positive gain of an activity
TopGainers(name) ==
  { a \in Counted : /\ ActivityChange(a, name) > 0
                    /\ \A b \in Counted : ActivityChange(b, name) <= ActivityChange(a, name) }

\* C32 (top contributor): every activity of a positive group total names as
\* top_member a member whose positive gain is the highest of all members,
\* with that gain as top_value; of several members of the highest gain it is
\* the first of the member list.
C32_TopContributor ==
  cStats # StatsPending =>
    \A i \in Idx(cStats.top_activities) :
      LET entry == cStats.top_activities[i]
      IN  /\ entry.total > 0
          /\ entry.top_member \in TopGainers(entry.name)
          /\ entry.top_value = ActivityChange(entry.top_member, entry.name)
          /\ \A a \in TopGainers(entry.name) : entry.top_member <= a

\* two members share the highest gain of an activity, a third has a lower
\* positive gain or none
C32_Witness ==
  /\ cStats # StatsPending
  /\ Len(cStats.top_activities) = 1
  /\ Cardinality(TopGainers("Zulrah")) = 2
  /\ Cardinality(Counted) = 3
  /\ cStats.top_activities[1].top_member = 1
  /\ cStats.top_activities[1].total > 2 * cStats.top_activities[1].top_value

(***************************************************************************)
(* Properties of the job queue.                                            *)
(***************************************************************************)
\* C38 (a queued job is claimed at most once): under any interleaving of
\* fetch_next_pending calls no job is returned to two callers, and a job
\* that was returned has the status running until it is marked success or
\* error.
C38_ClaimedOnce ==
  \A j \in Idx(jobs.rows) :
    /\ Len(jobs.rows[j].returned_to) <= 1
    /\ (jobs.rows[j].returned_to # <<>> /\ ~jobs.rows[j].marked) =>
         jobs.rows[j].status = "running"

(***************************************************************************)
(* Properties of summarize_delta.                                          *)
(***************************************************************************)
\* the places of the skill entries with a level gain, and the k-th of a set
\* of places
LeveledAt == { i \in Idx(sm.delta.skill_deltas) : sm.delta.skill_deltas[i].level_delta > 0 }
KthOf(places, k) == CHOOSE i \in places : Cardinality({ j \in places : j < i }) = k - 1
AtMost3(n) == IF n < 3 THEN n ELSE 3
\* the labels of the fragments the claim names, in its order
ShapeLabels ==
  (IF sm.delta.total_xp_delta # 0 THEN << "DeltaXP" >> ELSE <<>>)
    \o (IF LeveledAt # {} THEN << "Levels" >>
        ELSE IF sm.delta.skill_deltas # <<>> THEN << "XP gains" >> ELSE <<>>)
    \o (IF sm.delta.activity_deltas # <<>> THEN << "Activities" >> ELSE <<>>)
\* the items the claim names for a label
ShapeItems(label) ==
  CASE label = "DeltaXP" -> << <<"", sm.delta.total_xp_delta>> >>
    [] label = "Levels" ->
         [k \in 1..AtMost3(Cardinality(LeveledAt)) |->
            <<sm.delta.skill_deltas[KthOf(LeveledAt, k)].name,
              sm.delta.skill_deltas[KthOf(LeveledAt, k)].level_delta>>]
    [] label = "XP gains" ->
         [k \in 1..AtMost3(Len(sm.delta.skill_deltas)) |->
            <<sm.delta.skill_deltas[k].name, sm.delta.skill_deltas[k].xp_delta>>]
    [] OTHER ->
         [k \in 1..AtMost3(Len(sm.delta.activity_deltas)) |->
            <<sm.delta.activity_deltas[k].name, sm.delta.activity_deltas[k].score_delta>>]

\* C37 (summary shape): summarize_delta returns the literal "No changes
\* since last snapshot." exactly when total_xp_delta is 0 and both lists are
\* empty; otherwise it joins, in this order, the total xp delta when it is
\* not 0, then at most 3 level-ups when a skill has a level gain and
\* otherwise at most 3 xp gains, then at most 3 activity gains, each taken
\* from the front of its list.
C37_SummaryShape ==
  sm.out # NoSummary =>
    /\ sm.out.kind = "str"
    /\ sm.out = Literal("No changes since last snapshot.")
         <=> (/\ sm.delta.total_xp_delta = 0 /\ sm.delta.skill_deltas = <<>>
              /\ sm.delta.activity_deltas = <<>>)
    /\ sm.out # Literal("No changes since last snapshot.") =>
         /\ sm.out.text = ""
         /\ Len(sm.out.parts) = Len(ShapeLabels)
         /\ \A i \in Idx(sm.out.parts) :
              /\ sm.out.parts[i].label = ShapeLabels[i]
              /\ sm.out.parts[i].items = ShapeItems(ShapeLabels[i])

\* four skills of which the second and the fourth gained a level, four
\* activities and a falling total: three fragments, two level-ups that are
\* not the front of the skill list, the first three activities
C37_Witness ==
  /\ sm.out # NoSummary
  /\ Len(sm.delta.skill_deltas) = 4 /\ LeveledAt = { 2, 4 }
  /\ Len(sm.delta.activity_deltas) = 4 /\ sm.delta.total_xp_delta < 0
  /\ Len(sm.out.parts) = 3
  /\ Len(sm.out.parts[2].items) = 2 /\ Len(sm.out.parts[3].items) = 3

\* a delta without a change gave the literal
C37_WitnessLiteral ==
  /\ sm.out = Literal("No changes since last snapshot.")
  /\ sm.delta = NoDelta

(***************************************************************************)
(* Properties of the shared cache file.                                   *)
(***************************************************************************)
\* processes a and b made their caches from the same file, the updates of
\* each changed modes of players the other's did not, and both persisted
\* what they changed, a before b
WroteInTurn(a, b) ==
  /\ a # b /\ sh.inst[a].made /\ sh.inst[b].made
  /\ sh.inst[a].base = sh.inst[b].base
  /\ sh.inst[a].own # {} /\ sh.inst[b].own # {}
  /\ sh.inst[a].own \cap sh.inst[b].own = {}
  /\ ~sh.inst[a].touched /\ ~sh.inst[b].touched
  /\ sh.writers = <<a, b>>

\* C36 (last writer wins): when two ModeCache instances were loaded from
\* the same file, each updated a different player and each then persisted,
\* the file holds the mapping of the later writer and nothing else: the
\* record the earlier writer wrote for its player is not in it.
C36_LastWriterWins ==
  \A a, b \in Procs :
    WroteInTurn(a, b) =>
      /\ sh.file.exists /\ sh.file.json
      /\ sh.file.raw = sh.inst[b].cache.data
      /\ \A player \in sh.inst[a].own :
           /\ sh.file.raw[player] # sh.inst[a].cache.data[player]
           /\ sh.file.raw[player] = IF sh.inst[b].base.json
                                      THEN sh.inst[b].base.raw[player] ELSE NoRecord

\* the file held main for p1; process 1 changed p1 to hardcore and
\* persisted, process 2 set p2 and persisted: the file has main for p1
C36_Witness ==
  /\ WroteInTurn(1, 2)
  /\ sh.inst[1].base = SeedFile
  /\ sh.inst[1].own = { "p1" } /\ sh.inst[2].own = { "p2" }
  /\ sh.inst[1].cache.data["p1"].mode = "hardcore"
  /\ sh.file.raw["p1"] = ModeRecord("main", 0)
  /\ sh.file.raw["p2"].present

\* the file after a write of a mapping
Written(data) == [exists |-> TRUE, json |-> TRUE, raw |-> data]

\* C39 (dirty flag): persist writes the file exactly when an update since
\* the construction or the last persist changed a player's mode, and then
\* writes the whole mapping; an update that leaves every player's mode as it
\* was leaves the records, their updated_at included, and the dirty flag as
\* they were.
C39_DirtyFlag ==
  [][\A p \in Procs :
       /\ sh'.op = <<"persist", p>> =>
            /\ sh'.file = IF sh.inst[p].touched THEN Written(sh.inst[p].cache.data)
                          ELSE sh.file
            /\ sh'.inst[p].cache.data = sh.inst[p].cache.data
            /\ ~sh'.inst[p].cache.dirty
       /\ (/\ sh'.op = <<"update", p>>
           /\ \A player \in Players :
                /\ sh'.inst[p].cache.data[player].present = sh.inst[p].cache.data[player].present
                /\ sh'.inst[p].cache.data[player].mode = sh.inst[p].cache.data[player].mode)
            => sh'.inst[p].cache = sh.inst[p].cache
       /\ sh'.op = <<"update", p>> => (sh'.inst[p].cache.dirty <=> sh'.inst[p].touched)]_vars

\* process 1 alone repeated the mode the file holds for p1, twice, and
\* persisted: the record has the updated_at it was loaded with and the file
\* is the one it was
C39_Witness ==
  /\ sh.op = <<"persist", 1>> /\ ~sh.inst[2].made
  /\ sh.now >= 2 /\ sh.inst[1].own = {}
  /\ sh.inst[1].cache.data["p1"] = ModeRecord("main", 0)
  /\ sh.file = SeedFile

\* process 1 changed a mode and persisted, on a path with no file before
C39_WitnessWritten ==
  /\ sh.op = <<"persist", 1>> /\ sh.inst[1].base = NoFile
  /\ sh.inst[1].own # {} /\ sh.file = Written(sh.inst[1].cache.data)

(***************************************************************************)
(* Properties of the import.                                               *)
(***************************************************************************)
\* a file that holds a snapshot the store can take, and a run that is over
Sound(file) ==
  /\ file.readable /\ file.snapshot_id # EmptyId
  /\ \A i \in Idx(file.data.activities) : file.data.activities[i].score # Unbindable
ImportOver == imp.pc \in { "raised", "returned" }
HoldsSnapshot(snapshot_id) ==
  \E i \in Idx(db.snapshots) : db.snapshots[i].snapshot_id = snapshot_id

\* C33 (import isolation): after a run of import_snapshots over several
\* files the database holds the snapshot of every sound file of the run,
\* also when the writing of another file of the run failed.
C33_ImportIsolation ==
  ImportOver =>
    \A k \in Idx(imp.files) : Sound(imp.files[k]) => HoldsSnapshot(imp.files[k].snapshot_id)

\* a snapshot id or a player name that is empty
Malformed(payload) == payload.snapshot_id = EmptyId \/ payload.player = ""

\* C34 (identifier validation): an ingestion whose snapshot id or player
\* name is empty writes no row: a direct call of ingest_result leaves the
\* database as it was, and a turn of import_snapshots leaves the
\* connection's view as it was.
C34_IdentifiersValidated ==
  [][/\ (imp'.direct = imp.direct + 1 /\ Malformed(imp'.last)) => db' = db
     /\ (/\ imp.pc = "loop" /\ imp'.pc = "loop" /\ imp'.next = imp.next + 1
         /\ imp.files[imp.next].readable
         /\ imp.files[imp.next].snapshot_id = EmptyId) => imp'.view = imp.view]_vars

(***************************************************************************)
(* Properties of the totals.                                               *)
(***************************************************************************)
\* the entries other than "Overall", and the sum of a field over entries
\* with null and missing as 0
NonOverall(skills) == { i \in Idx(skills) : skills[i].name # "Overall" }
OverallEntries(skills) == Idx(skills) \ NonOverall(skills)
RECURSIVE SumField(_, _, _)
SumField(skills, picked, field) ==
  IF picked = {} THEN 0
  ELSE LET i == CHOOSE j \in picked : TRUE
       IN  (IF skills[i][field][1] = "num" THEN skills[i][field][2] ELSE 0)
             + SumField(skills, picked \ { i }, field)

\* C14 (total-level exclusion): the total level computed for a skill list,
\* by the report and by the migration, is the sum of the levels of the
\* entries other than "Overall", a null or missing level counting as 0,
\* and so is 0 for an empty list and for a list holding only Overall.
C14_TotalLevelExcludesOverall ==
  tFn \in { "_total_level", "calculate_total_values" } =>
    /\ ~tOut.raised
    /\ tOut.total_level = SumField(tSkills, NonOverall(tSkills), "level")

\* C15 (stored totals): the totals computed for storing, by the ingest
\* service, the import script and the migration, are the level and xp of
\* the Overall entry when the list has one (null or missing as 0), and
\* otherwise the sums over the other skills.
C15_StoredTotals ==
  tFn \in { "_total_from_skills", "total_from_skills", "calculate_total_values" } =>
    /\ ~tOut.raised
    /\ LET overall == OverallEntries(tSkills)
           first == CHOOSE i \in overall : \A j \in overall : i <= j
       IN  IF overall # {}
             THEN /\ tOut.total_level = SumField(tSkills, { first }, "level")
                  /\ tOut.total_xp = SumField(tSkills, { first }, "xp")
             ELSE /\ tOut.total_level = SumField(tSkills, Idx(tSkills), "level")
                  /\ tOut.total_xp = SumField(tSkills, Idx(tSkills), "xp")

(***************************************************************************)
(* Properties of the mode resolver.                                        *)
(***************************************************************************)
\* the xp a matched mode reported, as the resolver reads it (-1 for none)
MatchedXp(m) ==
  LET e == dm.successes[CHOOSE i \in Idx(dm.successes) : dm.successes[i].mode = m]
  IN  IF e.xp[1] = "num" THEN e.xp[2] ELSE -1
Matched == { dm.successes[i].mode : i \in Idx(dm.successes) }
\* an auto resolution has probed every candidate and chosen a mode
AutoChosen ==
  dm.pc = "done" /\ dm.result.status = "found" /\ ~dm.result.cached
  /\ dm.requested_mode \in { "auto", "auto-detect" }

\* C8 (fallen-hardcore tie-break): with hardcore and ironman both matched the
\* chosen mode is ironman when ironman's xp is strictly greater and hardcore
\* otherwise, whatever else matched; when that pair is not both matched and
\* hardcore_group_ironman and group_ironman both are, the same rule chooses
\* between those two.
C8_FallenTieBreak ==
  AutoChosen =>
    /\ ({ "hardcore", "ironman" } \subseteq Matched) =>
          dm.result.mode = IF MatchedXp("ironman") > MatchedXp("hardcore")
                             THEN "ironman" ELSE "hardcore"
    /\ (~({ "hardcore", "ironman" } \subseteq Matched)
         /\ { "hardcore_group_ironman", "group_ironman" } \subseteq Matched) =>
          dm.result.mode =
            IF MatchedXp("group_ironman") > MatchedXp("hardcore_group_ironman")
              THEN "group_ironman" ELSE "hardcore_group_ironman"

\* hardcore and ironman matched with equal xp next to a third mode of more
\* xp than hardcore's is not what decides: the tie goes to hardcore
C8_Witness ==
  /\ AutoChosen
  /\ { "hardcore", "ironman" } \subseteq Matched
  /\ Cardinality(Matched) = 3
  /\ MatchedXp("ironman") = MatchedXp("hardcore")
  /\ MatchedXp("hardcore") >= 0
  /\ dm.result.mode = "hardcore"

\* C9 (stable-cache trust): an auto request without force for a player whose
\* cached mode is ironman, group_ironman, ultimate or main fetches nothing,
\* returns found with the cached mode, and leaves the cache as it was.
C9_StableCacheTrust ==
  (/\ dm.pc = "done"
   /\ dm.requested_mode \in { "auto", "auto-detect" }
   /\ ~dm.force
   /\ dm.file0[dm.player] \in { "ironman", "group_ironman", "ultimate", "main" }) =>
    /\ dm.fetched = <<>>
    /\ dm.result.status = "found"
    /\ dm.result.mode = dm.file0[dm.player]
    /\ cacheFile = dm.file0
    /\ dm.data = dm.file0

\* a trusted cached ironman, with the other player cached too
C9_Witness ==
  /\ dm.pc = "done"
  /\ dm.requested_mode = "auto" /\ ~dm.force
  /\ dm.player = "p1"
  /\ dm.file0["p1"] = "ironman" /\ dm.file0["p2"] = "main"
  /\ dm.result.cached

\* C10 (explicit mode): a request for a concrete game mode fetches exactly
\* that mode and no other, whatever the cache holds and whether or not force
\* is set, and ends found with that mode, not_found or error.
C10_ExplicitMode ==
  (dm.pc = "done" /\ dm.requested_mode \in Range(GAME_MODES)) =>
    /\ dm.fetched = << dm.requested_mode >>
    /\ dm.result.status \in { "found", "not_found", "error" }
    /\ dm.result.status = "found" => dm.result.mode = dm.requested_mode

\* an explicit hardcore request, found, for a player cached as ironman with
\* force unset: the stable cache does not take over
C10_Witness ==
  /\ dm.pc = "done"
  /\ dm.requested_mode = "hardcore" /\ ~dm.force
  /\ dm.file0[dm.player] = "ironman"
  /\ dm.result.status = "found" /\ dm.result.mode = "hardcore"
  /\ cacheFile[dm.player] = "hardcore"

\* C11 (abort on transport error): in an auto resolution a fetch that ended
\* in a transport error is the last fetch of the resolution, which is over
\* with status error; fetches that ended in not-found stop nothing: a
\* resolution over without a transport error has fetched every candidate in
\* order.
C11_AbortOnTransportError ==
  IsAuto(dm.requested_mode) =>
    /\ \A i \in Idx(dm.outcomes) :
         dm.outcomes[i] = "error" =>
           /\ i = Len(dm.outcomes)
           /\ dm.pc = "done"
           /\ dm.result.status = "error"
    /\ Len(dm.fetched) = Len(dm.outcomes)
    /\ \A i \in Idx(dm.fetched) : dm.fetched[i] = dm.candidates[i]
    /\ (dm.pc = "done" /\ ~dm.result.cached /\ "error" \notin Range(dm.outcomes))
         => dm.fetched = dm.candidates

\* a resolution met not-found, went on, found a mode, and then stopped at a
\* transport error with candidates left to probe
C11_Witness ==
  /\ IsAuto(dm.requested_mode) /\ dm.pc = "done"
  /\ Len(dm.outcomes) = 3
  /\ dm.outcomes[1] = "not_found" /\ dm.outcomes[2] = "found" /\ dm.outcomes[3] = "error"
  /\ Len(dm.fetched) < Len(dm.candidates)
  /\ dm.result.status = "error"

\* the probe order an auto resolution follows after the cached mode
ProbeOrder == << "hardcore", "hardcore_group_ironman", "ironman", "group_ironman",
                 "ultimate", "main", "tournament", "seasonal", "deadman" >>
ExpectedProbes(cached) ==
  IF cached = "" THEN ProbeOrder
  ELSE << cached >> \o SelectSeq(ProbeOrder, LAMBDA m : m # cached)

\* C21 (probe order): an auto resolution that is not answered from a trusted
\* cached mode fetches the cached mode first, if there is one, then hardcore,
\* hardcore_group_ironman, ironman, group_ironman, ultimate, main, tournament,
\* seasonal, deadman, never a mode twice; a resolution over without a
\* transport error has fetched them all.
C21_ProbeOrder ==
  (IsAuto(dm.requested_mode) /\ dm.pc \in { "probe", "done" }
   /\ ~(dm.pc = "done" /\ dm.result.cached)) =>
    LET expected == ExpectedProbes(dm.file0[dm.player])
    IN  /\ Len(dm.fetched) <= Len(expected)
        /\ \A i \in Idx(dm.fetched) : dm.fetched[i] = expected[i]
        /\ \A i, j \in Idx(dm.fetched) : i # j => dm.fetched[i] # dm.fetched[j]
        /\ (dm.pc = "done" /\ dm.result.status # "error") => dm.fetched = expected

\* a player cached as deadman: deadman is fetched first and not again at the
\* end, where seasonal is the ninth and last fetch
C21_Witness ==
  /\ IsAuto(dm.requested_mode) /\ dm.pc = "done"
  /\ dm.file0[dm.player] = "deadman"
  /\ Len(dm.fetched) = 9
  /\ dm.fetched[1] = "deadman" /\ dm.fetched[2] = "hardcore"
  /\ dm.fetched[9] = "seasonal"

IronOrder == << "hardcore", "hardcore_group_ironman", "ironman", "group_ironman",
                "ultimate" >>
IronRank(m) == CHOOSE i \in 1..5 : IronOrder[i] = m
NoFallenPair ==
  /\ ~({ "hardcore", "ironman" } \subseteq Matched)
  /\ ~({ "hardcore_group_ironman", "group_ironman" } \subseteq Matched)

\* C22 (remaining disambiguation rules): the chosen mode is one of the modes
\* that returned data; when neither fallen pair is matched whole it is the
\* matched iron-family mode of the highest xp, the earliest in the iron order
\* among equals; without a matched iron-family mode it is main when main
\* matched, and otherwise a matched mode of the highest xp.
C22_RemainingRules ==
  AutoChosen =>
    /\ dm.result.mode \in Matched
    /\ NoFallenPair =>
         LET iron == { m \in Matched : \E i \in 1..5 : IronOrder[i] = m }
             chosen == dm.result.mode
         IN  IF iron # {}
               THEN /\ chosen \in iron
                    /\ \A m \in iron : MatchedXp(m) <= MatchedXp(chosen)
                    /\ \A m \in iron : MatchedXp(m) = MatchedXp(chosen)
                                         => IronRank(chosen) <= IronRank(m)
             ELSE IF "main" \in Matched
               THEN chosen = "main"
             ELSE \A m \in Matched : MatchedXp(m) <= MatchedXp(chosen)

\* hardcore and ultimate matched with equal xp next to main: hardcore, the
\* earlier of the two in the iron order, is chosen
C22_Witness ==
  /\ AutoChosen
  /\ Matched = { "hardcore", "ultimate", "main" }
  /\ MatchedXp("hardcore") = 1 /\ MatchedXp("ultimate") = 1
  /\ dm.result.mode = "hardcore"

\* C23 (cache effect of auto resolution): while an auto resolution runs, and
\* when it ends not_found, in error or with the trusted cached mode, the cache
\* file and the entries in memory are as the call found them; when it ends
\* with a mode chosen among the probes that returned data, the player's entry
\* in memory and in the file is that mode.
C23_CacheEffect ==
  (IsAuto(dm.requested_mode) /\ dm.pc # "idle") =>
    IF dm.pc = "done" /\ dm.result.status = "found" /\ ~dm.result.cached
      THEN /\ dm.successes # <<>>
           /\ dm.data[dm.player] = dm.result.mode
           /\ cacheFile[dm.player] = dm.result.mode
      ELSE /\ cacheFile = dm.file0
           /\ dm.data = dm.file0

\* a player cached as hardcore is found to be an ironman: the file says so
C23_Witness ==
  /\ IsAuto(dm.requested_mode) /\ dm.pc = "done"
  /\ dm.file0[dm.player] = "hardcore"
  /\ dm.result.status = "found" /\ dm.result.mode = "ironman"
  /\ cacheFile[dm.player] = "ironman"
  /\ "not_found" \in Range(dm.outcomes)

\* C24 (observability of probes): every result of detect_mode carries the
\* resolution status and the list of all the modes fetched during the
\* resolution, those that answered not-found included.
C24_ProbesReported ==
  dm.pc = "done" =>
    /\ dm.result.status \in { "found", "not_found", "error" }
    /\ dm.result.has_tested_modes
    /\ dm.result.tested_modes = dm.fetched

(***************************************************************************)
(* Properties of the snapshot store.                                       *)
(***************************************************************************)
\* the ids of the snapshot rows a database holds for a snapshot_id
RowsOf(d, snapshot_id) ==
  { i \in Idx(d.snapshots) : d.snapshots[i].snapshot_id = snapshot_id }
\* the children a database holds for the snapshot row id
SkillRows(d, id) == SelectSeq(d.skills, LAMBDA r : r.snapshot_id = id)
ActivityRows(d, id) == SelectSeq(d.activities, LAMBDA r : r.snapshot_id = id)
DeltaRows(d, id) == SelectSeq(d.deltas, LAMBDA r : r.current_snapshot_id = id)
\* the payload fields of the child rows
SkillFields(rows) ==
  [i \in Idx(rows) |-> Skill(rows[i].name, rows[i].level, rows[i].xp, rows[i].rank)]
ActivityFields(rows) ==
  [i \in Idx(rows) |-> Activity(rows[i].name, rows[i].score, rows[i].rank)]
\* worker w's call ends in this step
Ends(w) == ing[w].pc # "done" /\ ing'[w].pc = "done"
\* worker w starts a call in this step with a snapshot_id the store holds
CallsStored(w) ==
  /\ ing[w].pc = "idle" /\ ing'[w].pc # "idle"
  /\ RowsOf(db, ing'[w].payload.snapshot_id) # {}

\* C1: a call of ingest_result with a payload whose snapshot_id is stored
\* changes no row of any table (the account's default_mode included), leaves
\* exactly one snapshot row for that id, and is over at once, returning the
\* stored row's id as a skip, raising nothing.
C1_ReingestIsNoOp ==
  [][\A w \in Workers :
       CallsStored(w) =>
         /\ db' = db
         /\ Cardinality(RowsOf(db', ing'[w].payload.snapshot_id)) = 1
         /\ ing'[w].pc = "done"
         /\ ing'[w].result.status = "skipped"
         /\ ing'[w].result.snapshot_db_id \in RowsOf(db, ing'[w].payload.snapshot_id)]_vars

\* a payload was ingested again, resolved to another mode than the stored
\* row and the account's default_mode: a skip
C1_Witness ==
  \E w \in Workers :
    /\ ing[w].pc = "done"
    /\ ing[w].result.status = "skipped"
    /\ \E i \in RowsOf(db, ing[w].payload.snapshot_id) :
         /\ db.snapshots[i].resolved_mode # ing[w].payload.resolved_mode
         /\ db.accounts[db.snapshots[i].account_id].default_mode
              # ing[w].payload.resolved_mode

\* every snapshot row a reader sees has the skill rows and the activity rows
\* of its payload, at most one delta row, and a delta row when the store
\* held an earlier snapshot of the account as it was inserted
ReaderSeesWholeSnapshots ==
  \A i \in Idx(db.snapshots) :
    LET row == db.snapshots[i]
    IN  /\ row.account_id \in Idx(db.accounts)
        /\ SkillFields(SkillRows(db, i)) = DataAt(row.fetched_at).skills
        /\ ActivityFields(ActivityRows(db, i)) = DataAt(row.fetched_at).activities
        /\ Len(DeltaRows(db, i)) <= 1
        /\ (\E j \in 1..(i - 1) :
              /\ db.snapshots[j].account_id = row.account_id
              /\ db.snapshots[j].fetched_at < row.fetched_at)
             => Len(DeltaRows(db, i)) = 1
        /\ \A k \in Idx(db.deltas) : db.deltas[k].current_snapshot_id \in Idx(db.snapshots)
        /\ \A k \in Idx(db.skills) : db.skills[k].snapshot_id \in Idx(db.snapshots)
        /\ \A k \in Idx(db.activities) : db.activities[k].snapshot_id \in Idx(db.snapshots)

\* the committed database changes in this step by one whole snapshot of
\* worker w: its row, its children, its delta row when a delta was computed
\* or carried, and its account
CommitsWhole(w) ==
  LET p == ing[w].payload
      id == Len(db.snapshots) + 1
  IN  /\ ing[w].pc = "commit" /\ ing'[w].pc = "done"
      /\ ing'[w].result.status = "stored"
      /\ db'.snapshots = Append(db.snapshots, db'.snapshots[id])
      /\ db'.snapshots[id].snapshot_id = p.snapshot_id
      /\ db'.accounts[db'.snapshots[id].account_id].name = p.player
      /\ db'.skills = db.skills \o SkillRows(db', id)
      /\ db'.activities = db.activities \o ActivityRows(db', id)
      /\ db'.deltas = db.deltas \o DeltaRows(db', id)
      /\ SkillFields(SkillRows(db', id)) = p.data.skills
      /\ ActivityFields(ActivityRows(db', id)) = p.data.activities
      /\ Len(DeltaRows(db', id)) = (IF ing'[w].result.delta.some THEN 1 ELSE 0)
      /\ Len(db'.accounts) \in { Len(db.accounts), Len(db.accounts) + 1 }

\* C2: a reader sees whole snapshots only; the committed database changes
\* only by one whole snapshot at a time; a call that ends by raising leaves
\* the committed database as it was, whatever it had written.
C2_AtomicWrites ==
  /\ []ReaderSeesWholeSnapshots
  /\ [][/\ db' # db => \E w \in Workers : CommitsWhole(w)
        /\ \A w \in Workers :
             (Ends(w) /\ ing'[w].result.status = "error") => db' = db]_vars

\* a call failed after it had inserted its snapshot row and created its
\* account: the store, which holds another snapshot, has no row of either
C2_Witness ==
  \E w \in Workers :
    /\ ing[w].pc = "done"
    /\ ing[w].result.error = "fault"
    /\ ing[w].snapshot_db_id # 0
    /\ ing[w].account = 0
    /\ RowsOf(db, ing[w].payload.snapshot_id) = {}
    /\ AccountId(db, ing[w].payload.player) = 0
    /\ db.snapshots # <<>>

\* C3: snapshot_id is unique across the store, and of two interleaved calls
\* for one snapshot_id both complete without error: unless the storage
\* itself failed, a call whose snapshot_id is stored when it ends has stored
\* it or has skipped it.
C3_ConcurrentSameId ==
  /\ \A i, j \in Idx(db.snapshots) :
       db.snapshots[i].snapshot_id = db.snapshots[j].snapshot_id => i = j
  /\ \A w \in Workers :
       (ing[w].pc = "done" /\ RowsOf(db, ing[w].payload.snapshot_id) # {})
         => \/ ing[w].result.status \in { "stored", "skipped" }
            \/ ing[w].result.error = "fault"

\* the stored snapshots of the account of snapshot s fetched strictly
\* earlier than s
EarlierStored(d, s) ==
  { i \in Idx(d.snapshots) :
      /\ d.snapshots[i].account_id = d.snapshots[s].account_id
      /\ d.snapshots[i].fetched_at < d.snapshots[s].fetched_at }

\* C27 (delta linkage): every stored delta row of a snapshot s points to
\* the stored snapshot of the same account with the greatest fetched_at
\* strictly below that of s, and to none (NULL, here 0) only when no such
\* snapshot is stored.
C27_DeltaLinkage ==
  \A k \in Idx(db.deltas) :
    LET prev == db.deltas[k].previous_snapshot_id
        earlier == EarlierStored(db, db.deltas[k].current_snapshot_id)
    IN  IF earlier = {} THEN prev = 0
        ELSE /\ prev \in earlier
             /\ \A j \in earlier :
                  db.snapshots[j].fetched_at <= db.snapshots[prev].fetched_at

\* worker w has run _insert_delta in its transaction, which is still open
DeltaInserted(w) == ing[w].pc = "commit"
\* the latest of the earlier snapshots of snapshot s in the database d
LatestEarlier(d, s) ==
  CHOOSE b \in EarlierStored(d, s) :
    \A j \in EarlierStored(d, s) : d.snapshots[j].fetched_at <= d.snapshots[b].fetched_at
\* the delta row of snapshot s in d holds the delta
RowHolds(d, s, delta) ==
  /\ Len(DeltaRows(d, s)) = 1
  /\ DeltaRows(d, s)[1].total_xp_delta = delta.total_xp_delta
  /\ DeltaRows(d, s)[1].skill_deltas = delta.skill_deltas
  /\ DeltaRows(d, s)[1].activity_deltas = delta.activity_deltas

\* C28 (the stored delta is recomputed from the store): when the database
\* holds an earlier snapshot of the account, the delta ingest_result stores
\* and returns is compute_snapshot_delta of that snapshot's stored skills and
\* activities and the payload's, whatever delta the payload carried; when
\* it holds none, the payload's delta is returned, and stored if there is one.
C28_DeltaRecomputed ==
  \A w \in Workers :
    DeltaInserted(w) =>
      LET v == ing[w].view
          s == ing[w].snapshot_db_id
          p == ing[w].payload
      IN  IF EarlierStored(v, s) # {}
            THEN LET b == LatestEarlier(v, s)
                     recomputed == compute_snapshot_delta(
                                     Snapshot(SkillFields(SkillRows(v, b)),
                                              ActivityFields(ActivityRows(v, b))),
                                     p.data)
                 IN  /\ ing[w].result.delta = SomeDelta(recomputed)
                     /\ RowHolds(v, s, recomputed)
            ELSE /\ ing[w].result.delta = p.delta
                 /\ IF p.delta.some THEN RowHolds(v, s, p.delta.value)
                                    ELSE DeltaRows(v, s) = <<>>

\* the store holds the account's snapshot of hour 1; the payload of hour 2
\* carries the delta against hour 0, and the delta against hour 1 is stored
C28_Witness ==
  \E w \in Workers :
    /\ DeltaInserted(w)
    /\ EarlierStored(ing[w].view, ing[w].snapshot_db_id) # {}
    /\ ing[w].payload.delta.some
    /\ ing[w].result.delta # ing[w].payload.delta
    /\ ing[w].result.delta.value.total_xp_delta = 20
    /\ ing[w].payload.delta.value.total_xp_delta = 40

(***************************************************************************)
(* Properties of the snapshot agent with the store.                        *)
(***************************************************************************)
\* the files of the latest run's directory other than the one it wrote
OtherFiles == { f \in files[SafePlayer(res.player)] : f.name # res.path }
\* the worker's latest ingest_result call stored a snapshot row
IngestStored == ing[1].pc = "done" /\ ing[1].result.status = "stored"
\* the store holds no snapshot of the stored row's account fetched earlier
\* than it
NoEarlierRow ==
  LET row == db.snapshots[ing[1].result.snapshot_db_id]
  IN  \A j \in Idx(db.snapshots) :
        db.snapshots[j].account_id = row.account_id
          => db.snapshots[j].fetched_at >= row.fetched_at

C35_SnapshotsImmutable ==
  [][/\ \A d \in Directories : files[d] \subseteq files'[d]
     /\ (res'.success /\ clock' # clock) =>
          Cardinality(files'[SafePlayer(res'.player)])
            = Cardinality(files[SafePlayer(res'.player)]) + 1]_vars
====
